---- MODULE Spec2Model ----
(***************************************************************************)
(* A model of the IREC application validator (src/irec.py).               *)
(*                                                                         *)
(* Text is modelled as a sequence of atoms.  An atom is a piece of text    *)
(* that the validator's patterns treat as a unit: a section heading, a     *)
(* question anchor, a field label, an answer token, a key word, or a       *)
(* stretch of other words.  A paragraph is a sequence of atoms; the text   *)
(* of a section is the atoms of its paragraphs, each paragraph followed    *)
(* by the atom NL (the "\n" the slicing loops add).                        *)
(*                                                                         *)
(* The answer tokens are written in ASCII: "Yes [x]" is the checked box    *)
(* (U+2611) after Yes, "Yes [ ]" the unchecked box (U+2610), and so on.    *)
(***************************************************************************)
EXTENDS Integers, Sequences, FiniteSets, TLC

VARIABLES
    doc,             \* doc.paragraphs: the paragraph stream, read only
    file_names,      \* the optional list of candidate file names
    now,             \* datetime.now(): its day number and its time of day
    pc,              \* the orchestrator's position: the part it runs next
    parts,           \* results["parts"]: the parts filled in so far, in order
    required_forms,  \* the orchestrator's required_forms list
    facts,           \* the values threaded from one validator to the next
    section_text,    \* the part_k_text the last validator built
    raised,          \* an exception left the validator and the orchestrator
    summary,         \* results["summary"]
    runs             \* two runs side by side: their list objects and their states

vars == <<doc, file_names, now, pc, parts, required_forms, facts,
          section_text, raised, summary, runs>>

(***************************************************************************)
(* Sequences                                                               *)
(***************************************************************************)
NL == "\n"

NotFound == "<no match>"

RECURSIVE SelectSev(_, _)
SelectSev(fs, sev) ==
    IF fs = <<>> THEN <<>>
    ELSE IF Head(fs).sev = sev THEN <<Head(fs)>> \o SelectSev(Tail(fs), sev)
         ELSE SelectSev(Tail(fs), sev)

RECURSIVE ConcatAll(_)
ConcatAll(seqs) ==
    IF seqs = <<>> THEN <<>> ELSE Head(seqs) \o ConcatAll(Tail(seqs))

\* The first index k in from..Len(t) with t[k] \in S, or 0.
FirstIn(t, from, S) ==
    IF \E k \in from..Len(t) : t[k] \in S
    THEN CHOOSE k \in from..Len(t) :
             t[k] \in S /\ \A m \in from..(k - 1) : t[m] \notin S
    ELSE 0

Range(s) == {s[i] : i \in 1..Len(s)}

At(t, i) == IF i \in 1..Len(t) THEN t[i] ELSE "<end>"

\* The one element of a set of one element.
The(S) == CHOOSE x \in S : TRUE

Least(S) == CHOOSE i \in S : \A m \in S : i <= m

IsPrefix(s, t) == Len(s) <= Len(t) /\ SubSeq(t, 1, Len(s)) = s

(***************************************************************************)
(* Findings.  A FindingSet is built as one list of findings in program     *)
(* order, each with its severity, and split into the three lists at the    *)
(* end: results["errors"], results["warnings"], results["info"].           *)
(***************************************************************************)
F(sev, msg, arg, tok, n) == [sev |-> sev, msg |-> msg, arg |-> arg, tok |-> tok, n |-> n]

Err(msg, arg)  == <<F("error", msg, arg, "", 0)>>
Warn(msg, arg) == <<F("warning", msg, arg, "", 0)>>
Info(msg, arg) == <<F("info", msg, arg, "", 0)>>
InfoTok(msg, arg, tok) == <<F("info", msg, arg, tok, 0)>>
ErrN(msg, arg, n) == <<F("error", msg, arg, "", n)>>

Results(fs) ==
    [errors   |-> SelectSev(fs, "error"),
     warnings |-> SelectSev(fs, "warning"),
     info     |-> SelectSev(fs, "info")]

EmptyResults == Results(<<>>)

(***************************************************************************)
(* The sections and their markers                                           *)
(***************************************************************************)
PartIds == <<0, 1, 2, 3, 4, 5, 6, 7, 8, 10, 11>>

Header(k) ==
    CASE k = 0  -> "Part 0: Do I Submit an NU IREC Application?"
      [] k = 1  -> "Part 1: Cover Sheet"
      [] k = 2  -> "Part 2: Research Team Details"
      [] k = 3  -> "Part 3: Research Design"
      [] k = 4  -> "Part 4: Participants"
      [] k = 5  -> "Part 5: Detailed Procedures"
      [] k = 6  -> "Part 6: Data Management Plan"
      [] k = 7  -> "Part 7: Risk/Benefit Analysis"
      [] k = 8  -> "Part 8: Confidentiality/Anonymity"
      [] k = 10 -> "Part 10: Project Funding"
      [] k = 11 -> "Part 11: Protocol for naming of documents"

NoMarker == "<no end marker>"

StartMarker(k) == Header(k)

EndMarker(k) ==
    CASE k = 8  -> Header(10)
      [] k = 10 -> Header(11)
      [] k = 11 -> NoMarker
      [] OTHER  -> Header(k + 1)

\* "marker in para.text"
HasMarker(para, marker) == \E j \in 1..Len(para) : para[j] = marker

(***************************************************************************)
(* The slicing loop of every validator:                                    *)
(*     for para in doc.paragraphs:                                         *)
(*         if START in para.text: in_part = True                           *)
(*         if in_part: part_text += para.text + "\n"                       *)
(*         if END in para.text: break                                      *)
(* The state of the loop is in_part, the text so far, and whether the      *)
(* break was taken.                                                        *)
(***************************************************************************)
LoopStart == [in_part |-> FALSE, text |-> <<>>, broke |-> FALSE]

\* An iteration that tests the end marker before it adds the paragraph.
LoopBodyBreakFirst(state, para, start, end) ==
    IF HasMarker(para, end) THEN [state EXCEPT !.broke = TRUE]
    ELSE LET in_part == state.in_part \/ HasMarker(para, start)
         IN  [in_part |-> in_part,
              text    |-> IF in_part THEN state.text \o para \o <<NL>> ELSE state.text,
              broke   |-> FALSE]

\* One iteration of the loop.
LoopBody(state, para, start, end) ==
    LET in_part == state.in_part \/ HasMarker(para, start)
    IN  [in_part |-> in_part,
         text    |-> IF in_part THEN state.text \o para \o <<NL>> ELSE state.text,
         broke   |-> HasMarker(para, end)]

\* The iterations for the paragraphs lo..hi, in order, from `state`, up to
\* the break; the range is halved so that the evaluation stays shallow.
RECURSIVE SliceLoop(_, _, _, _, _, _)
SliceLoop(paras, lo, hi, state, start, end) ==
    IF lo > hi THEN state
    ELSE IF lo = hi THEN LoopBody(state, paras[lo], start, end)
    ELSE LET mid  == (lo + hi) \div 2
             left == SliceLoop(paras, lo, mid, state, start, end)
         IN  IF left.broke THEN left
             ELSE SliceLoop(paras, mid + 1, hi, left, start, end)

SectionText(paras, k) ==
    SliceLoop(paras, 1, Len(paras), LoopStart, StartMarker(k), EndMarker(k)).text

(***************************************************************************)
(* The patterns.  Each operator is one shape of regular expression the     *)
(* validators use, read over atoms.  re.search returns the leftmost match, *)
(* and a lazy ".*?" stops at the first place the rest of the pattern       *)
(* matches; with re.DOTALL "." also matches "\n", without it a match       *)
(* stays on one line.                                                      *)
(***************************************************************************)
YesNoTokens == {"Yes [x]", "No [x]", "Yes [ ]", "No [ ]"}

NATokens == {"N/A [x]", "N/A [ ]"}

BoxTokens == {"[x]", "[ ]"}

\* "[ ]" in answer: the token holds the unchecked box
\* No glyph counts as unchecked.
UncheckedNever(tok) == FALSE

Unchecked(tok) == tok \in {"Yes [ ]", "No [ ]", "N/A [ ]", "[ ]", "No dropdown menu [ ]"}

\* ANCHOR.*?\n.*?(G) with re.DOTALL: the first token of G after the first
\* line break after the first ANCHOR.
SearchAfterNL(t, anchor, G) ==
    LET i == FirstIn(t, 1, {anchor})
        j == IF i = 0 THEN 0 ELSE FirstIn(t, i + 1, {NL})
        k == IF j = 0 THEN 0 ELSE FirstIn(t, j + 1, G)
    IN  IF k = 0 THEN NotFound ELSE t[k]

\* ANCHOR.*?(G) and ANCHOR\s+.*?(G) with re.DOTALL: the first token of G
\* after the first ANCHOR (an atom is always followed by white space).
SearchAnywhere(t, anchor, G) ==
    LET i == FirstIn(t, 1, {anchor})
        k == IF i = 0 THEN 0 ELSE FirstIn(t, i + 1, G)
    IN  IF k = 0 THEN NotFound ELSE t[k]

\* ANCHOR.*?(G) without re.DOTALL: the first token of G after an ANCHOR and
\* on its line, for the first ANCHOR that has one.
SameLineHit(t, i, G) ==
    LET k == FirstIn(t, i + 1, G)
        j == FirstIn(t, i + 1, {NL})
    IN  IF k # 0 /\ (j = 0 \/ k < j) THEN k ELSE 0

SearchSameLine(t, anchor, G) ==
    LET hits == {i \in 1..Len(t) : t[i] = anchor /\ SameLineHit(t, i, G) # 0}
    IN  IF hits = {} THEN NotFound
        ELSE t[SameLineHit(t, CHOOSE i \in hits : \A m \in hits : i <= m, G)]

\* value.strip(): white space at the ends goes; the model drops every line
\* break, the atoms of the value stay in order.
Strip(s) == SelectSeq(s, LAMBDA a : a # NL)

NoField == [matched |-> FALSE, value |-> <<>>]

\* The atoms a terminator "Part k:" matches inside: "Part 1:" is also the
\* beginning of "Part 10:" and of "Part 11:".
PartTerm(k) ==
    IF k = 1 THEN {Header(1), Header(10), Header(11)} ELSE {Header(k)}

\* (.*?)(TERM|$) with re.DOTALL, from index `from`: the text up to the first
\* atom of terms, or to the end of the text.
GroupFrom(t, from, terms) ==
    LET e == FirstIn(t, from, terms)
    IN  [matched |-> TRUE,
         value   |-> Strip(SubSeq(t, from, (IF e = 0 THEN Len(t) + 1 ELSE e) - 1))]

\* ANCHOR(.*?)(TERM|$) with re.DOTALL
FieldAfter(t, anchor, terms) ==
    LET i == FirstIn(t, 1, {anchor})
    IN  IF i = 0 THEN NoField ELSE GroupFrom(t, i + 1, terms)

\* ANCHOR.*?\n(.*?)(TERM|$) with re.DOTALL
FieldAfterNL(t, anchor, terms) ==
    LET i == FirstIn(t, 1, {anchor})
        j == IF i = 0 THEN 0 ELSE FirstIn(t, i + 1, {NL})
    IN  IF j = 0 THEN NoField ELSE GroupFrom(t, j + 1, terms)

\* The run of atoms from index s to the end of its line.
LineFrom(t, s) ==
    LET e == FirstIn(t, s, {NL})
    IN  SubSeq(t, s, (IF e = 0 THEN Len(t) + 1 ELSE e) - 1)

\* The first index after i that holds no line break, or 0: what "\s*" skips.
SkipSpace(t, i) ==
    IF \E k \in (i + 1)..Len(t) : t[k] # NL
    THEN CHOOSE k \in (i + 1)..Len(t) :
             t[k] # NL /\ \A m \in (i + 1)..(k - 1) : t[m] = NL
    ELSE 0

\* LABEL\s*([^\n]+): "\s*" also skips line breaks, so the value of an empty
\* field is the next line that has text.
LineField(t, label) ==
    LET i == FirstIn(t, 1, {label})
        s == IF i = 0 THEN 0 ELSE SkipSpace(t, i)
    IN  IF s = 0 THEN NoField ELSE [matched |-> TRUE, value |-> LineFrom(t, s)]

\* "not match or not match.group(1).strip()"
Empty(m) == ~m.matched \/ m.value = <<>>

(***************************************************************************)
(* Words.  "term in text.lower()" is a substring test.  TermIn holds the   *)
(* pairs <<atom, term>> where the term is part of the atom in lower case,  *)
(* for the atoms of the streams and the terms the validators look for.     *)
(***************************************************************************)
\* value.lower(), for the values compared as a whole
Lower(a) ==
    CASE a = "Not Applicable" -> "not applicable"
      [] a = "No risk"        -> "no risk"
      [] OTHER                -> a

TermIn ==
    {<<"Appendix A: IREC Application Form", "appendix">>,
     <<"Appendix B: Written Informed Consent Form", "appendix">>,
     <<"Appendix C: Informed Consent Form for Internet Surveys", "appendix">>,
     <<"Appendix C: Informed Consent Form for Internet Surveys", "internet survey">>,
     <<"Appendix C: Informed Consent Form for Internet Surveys", "survey">>,
     <<"Appendix D: Oral Consent Script", "appendix">>,
     <<"Appendix E: Assent Form", "appendix">>,
     <<"Appendix K: Funding Source Form", "appendix">>,
     <<"Appendix L: Confidentiality Agreement Form", "appendix">>,
     <<"Appendix M: Written Informed Consent Form For Genetic and/or Biobank Research", "appendix">>,
     <<"Appendix M: Written Informed Consent Form For Genetic and/or Biobank Research", "biobank">>,
     <<"Appendix M: Written Informed Consent Form For Genetic and/or Biobank Research", "genetic">>,
     <<"Are you conducting a survey using any electronic media?", "survey">>,
     <<"Debriefing Documents", "debriefing">>,
     <<"How? With whom? Will subjects be re-identifiable? Why or why not?", "identifiable">>,
     <<"Identifiable", "identifiable">>,
     <<"If your survey contains questions", "survey">>,
     <<"Interview", "interview">>,
     <<"Interview Questions/Focus Group Guides", "focus group">>,
     <<"Interview Questions/Focus Group Guides", "interview">>,
     <<"Is the funding external to Nazarbayev University?", "nazarbayev university">>,
     <<"KAZAKHSTAN", "kazakhstan">>,
     <<"Kazakhstan", "kazakhstan">>,
     <<"Nazarbayev University", "nazarbayev university">>,
     <<"Nazarbayev University Unit (School):", "nazarbayev university">>,
     <<"Surveys/Questionnaires", "survey">>,
     <<"Video", "video">>,
     <<"Visual Stimuli", "visual stimuli">>,
     <<"Will the data be identifiable", "identifiable">>,
     <<"Will you be video recording", "recording">>,
     <<"Will you be video recording", "video">>,
     <<"action research", "action research">>,
     <<"appendix", "appendix">>,
     <<"attach", "attach">>,
     <<"attached", "attach">>,
     <<"audio", "audio">>,
     <<"biobank", "biobank">>,
     <<"clinical trial", "clinical trial">>,
     <<"collaborator", "collaborator">>,
     <<"debriefing", "debriefing">>,
     <<"existing data set", "existing data set">>,
     <<"external organization", "external organization">>,
     <<"focus group", "focus group">>,
     <<"genetic", "genetic">>,
     <<"human genetics", "genetic">>,
     <<"human genetics", "human genetics">>,
     <<"identifiable", "identifiable">>,
     <<"internet survey", "internet survey">>,
     <<"internet survey", "survey">>,
     <<"interview", "interview">>,
     <<"interview via video", "interview">>,
     <<"interview via video", "interview via video">>,
     <<"interview via video", "video">>,
     <<"kazakhstan", "kazakhstan">>,
     <<"mixed method", "mixed method">>,
     <<"mixed methods", "mixed method">>,
     <<"nazarbayev university", "nazarbayev university">>,
     <<"observation", "observation">>,
     <<"online survey", "online survey">>,
     <<"online survey", "survey">>,
     <<"photograph", "photograph">>,
     <<"recording", "recording">>,
     <<"survey", "survey">>,
     <<"video", "video">>,
     <<"visual stimuli", "visual stimuli">>}

AtomHas(a, term) == <<a, term>> \in TermIn

\* term in text.lower()
\* term in the first word of the text only
HasTermFirst(text, term) == text # <<>> /\ AtomHas(text[1], term)

HasTerm(text, term) == \E i \in 1..Len(text) : AtomHas(text[i], term)

\* any(term in text.lower() for term in terms)
\* all(term in text.lower() for term in terms)
HasEvery(text, terms) == \A term \in terms : HasTerm(text, term)

HasAny(text, terms) == \E term \in terms : HasTerm(text, term)

(***************************************************************************)
(* validate_part_0                                                         *)
(***************************************************************************)
ExemptionQuestion == "Do you think this research is eligible for an Exemption?"

\* questions: the text (its pattern is the text, then ".*?\n.*?(tokens)")
\* and the answer that makes application_needed true.
Part0Questions ==
    << [text |-> "Does your research involve human subjects?", needed |-> "Yes"],
       [text |-> "Is this project being conducted solely to fulfill course requirements?",
        needed |-> "No"],
       [text |-> "Is this project a quality assurance activity?", needed |-> "No"],
       [text |-> "Would you like to use this study to launch future investigations?",
        needed |-> "Yes"],
       [text |-> "Would you like to disseminate or publish findings?", needed |-> "Yes"],
       [text |-> ExemptionQuestion, needed |-> "Always"] >>

\* question["application_needed"](answer), for a checked answer
ApplicationNeeded(q, answer) ==
    CASE q.needed = "Yes" -> answer = "Yes [x]"
      [] q.needed = "No"  -> answer = "No [x]"
      [] OTHER            -> TRUE

Part0Answer(t, q) == SearchAfterNL(t, q.text, YesNoTokens)

\* One pass of the loop over questions.
Part0Question(t, q) ==
    LET answer == Part0Answer(t, q)
    IN  IF answer = NotFound THEN Err("Response not found or improperly formatted", q.text)
        ELSE IF Unchecked(answer) THEN Warn("Checkbox is not marked", q.text)
        ELSE InfoTok("Response", q.text, answer)

Part0Counts(t, q) ==
    LET answer == Part0Answer(t, q)
    IN  answer # NotFound /\ ~Unchecked(answer)

ExemptionCategories == <<"f1", "f2", "f3">>

\* The pattern "f1 (box) Research conducted in ..." is one atom, "f1 [x]" or
\* "f1 [ ]": the label, the box and the words after it.
CategoryAtom(name, box) ==
    CASE name = "f1" -> IF box = "[x]" THEN "f1 [x]" ELSE "f1 [ ]"
      [] name = "f2" -> IF box = "[x]" THEN "f2 [x]" ELSE "f2 [ ]"
      [] name = "f3" -> IF box = "[x]" THEN "f3 [x]" ELSE "f3 [ ]"

Part0Category(t, name) ==
    LET k == FirstIn(t, 1, {CategoryAtom(name, "[x]"), CategoryAtom(name, "[ ]")})
    IN  IF k = 0 THEN Err("Exemption category not found", name)
        ELSE IF t[k] = CategoryAtom(name, "[x]")
             THEN Err("Exemption category is checked. Must be unchecked", name)
             ELSE Info("Exemption category is correctly unchecked", name)

JustificationAnchor == "Outline the reasons why your study should be considered exempt:"

ValidatePart0(paras) ==
    LET t == SectionText(paras, 0)
        application_needed ==
            \E i \in 1..Len(Part0Questions) :
                /\ Part0Counts(t, Part0Questions[i])
                /\ ApplicationNeeded(Part0Questions[i], Part0Answer(t, Part0Questions[i]))
        exemption_claimed ==
            Part0Answer(t, Part0Questions[6]) = "Yes [x]"
        justification == FieldAfter(t, JustificationAnchor, PartTerm(1))
        fs == ConcatAll([i \in 1..Len(Part0Questions) |-> Part0Question(t, Part0Questions[i])])
              \o (IF application_needed THEN <<>>
                  ELSE Err("Part 0 responses indicate no application is needed", ""))
              \o (IF ~exemption_claimed THEN <<>>
                  ELSE IF ~Empty(justification)
                       THEN Info("Exemption justification provided", "")
                       ELSE Warn("Exemption claimed, but no justification provided", ""))
              \o ConcatAll([i \in 1..Len(ExemptionCategories) |->
                               Part0Category(t, ExemptionCategories[i])])
    IN  IF t = <<>>
        THEN [text |-> t, raises |-> FALSE,
              results |-> Results(Err("section not found", "Part 0")),
              exemption_claimed |-> FALSE]
        ELSE [text |-> t, raises |-> FALSE, results |-> Results(fs),
              exemption_claimed |-> exemption_claimed]

(***************************************************************************)
(* validate_part_1                                                         *)
(***************************************************************************)
Part1Fields ==
    <<"Principal Investigator:", "Application Date:",
      "Nazarbayev University Unit (School):", "Primary Research Discipline:",
      "Application Title:">>

\* The values datetime.strptime(value, "%m/%d/%Y") parses.
DatesMDY ==
    {"01/15/2025", "06/30/2021", "03/02/2022", "03/01/2022", "02/28/2022", "06/16/2020",
     "06/15/2020", "06/14/2020"}

Part1Field(t, name) ==
    LET m == LineField(t, name)
    IN  IF Empty(m) THEN Err("Field is missing or empty", name)
        ELSE Info("Field filled", name)
             \o (IF name # "Application Date:" THEN <<>>
                 ELSE IF Len(m.value) = 1 /\ m.value[1] \in DatesMDY
                      THEN Info("Application Date is in valid format (MM/DD/YYYY)", "")
                      ELSE Err("Application Date is not in valid format (MM/DD/YYYY)", ""))

ReviewTypes == <<"An Expedited Review", "A Full Board Review", "An Exemption">>

Part1Answer(t, name) == SearchAnywhere(t, name, YesNoTokens)

\* One pass of the loop over review_types.
Part1Review(t, name) ==
    LET answer == Part1Answer(t, name)
    IN  IF answer = NotFound THEN Err("Response not found or improperly formatted", name)
        ELSE (IF Unchecked(answer) THEN Warn("Checkbox is not marked", name) ELSE <<>>)
             \o InfoTok("Response", name, answer)

\* selected_reviews, were an unmarked "Yes" selected as well.
SelectedReviewsAnyYes(t) ==
    SelectSeq(ReviewTypes, LAMBDA name : Part1Answer(t, name) \in {"Yes [x]", "Yes [ ]"})

\* selected_reviews
SelectedReviews(t) ==
    SelectSeq(ReviewTypes, LAMBDA name : Part1Answer(t, name) = "Yes [x]")

ValidatePart1(paras, exemption_claimed) ==
    LET t == SectionText(paras, 1)
        selected_reviews == SelectedReviews(t)
        fs == ConcatAll([i \in 1..Len(Part1Fields) |-> Part1Field(t, Part1Fields[i])])
              \o ConcatAll([i \in 1..Len(ReviewTypes) |-> Part1Review(t, ReviewTypes[i])])
              \o (IF Len(selected_reviews) # 1
                  THEN ErrN("Exactly one review type must be selected. Found", "",
                            Len(selected_reviews))
                  ELSE IF selected_reviews[1] # "An Expedited Review"
                       THEN Err("School-level review requires 'An Expedited Review'. Selected",
                                selected_reviews[1])
                       ELSE <<>>)
              \o (IF "An Exemption" \in Range(selected_reviews) /\ ~exemption_claimed
                  THEN Err("Exemption selected in Part 1, but Part 0 does not claim exemption", "")
                  ELSE <<>>)
    IN  IF t = <<>>
        THEN [text |-> t, raises |-> FALSE,
              results |-> Results(Err("section not found", "Part 1"))]
        ELSE [text |-> t, raises |-> FALSE, results |-> Results(fs)]

(***************************************************************************)
(* validate_part_2                                                         *)
(***************************************************************************)
\* ROLE\s*\n\s*Name:\s*([^\n]+): the role heading, at least one line break,
\* the label Name:, and the value as in LineField.
RoleName(t, role) ==
    LET hits == {i \in 1..Len(t) :
                    /\ t[i] = role /\ At(t, i + 1) = NL
                    /\ SkipSpace(t, i) # 0 /\ t[SkipSpace(t, i)] = "Name:"
                    /\ SkipSpace(t, SkipSpace(t, i)) # 0}
    IN  IF hits = {} THEN NoField
        ELSE [matched |-> TRUE,
              value   |-> LineFrom(t, SkipSpace(t, SkipSpace(t, Least(hits))))]

\* The first index k of `label` that begins a line at least two line breaks
\* after the heading at i ("\n.*?\n\s*LABEL"), and has a value after it.
LabelAfter(t, i, label) ==
    LET ks == {k \in (i + 2)..Len(t) :
                  /\ t[k] = label
                  /\ \E n \in (i + 2)..(k - 1) :
                         t[n] = NL /\ \A m \in n..(k - 1) : t[m] = NL}
    IN  IF ks = {} THEN 0 ELSE Least(ks)

\* ROLE\s*\n.*?\n\s*LABEL\s*([^\n]+) with re.DOTALL
RoleField(t, role, label) ==
    LET hits == {i \in 1..Len(t) :
                    /\ t[i] = role /\ At(t, i + 1) = NL
                    /\ \E k \in (i + 2)..Len(t) :
                           /\ t[k] = label /\ SkipSpace(t, k) # 0
                           /\ \E n \in (i + 2)..(k - 1) :
                                  t[n] = NL /\ \A m \in n..(k - 1) : t[m] = NL}
        i0 == Least(hits)
        k0 == Least({k \in (i0 + 2)..Len(t) :
                        /\ t[k] = label /\ SkipSpace(t, k) # 0
                        /\ \E n \in (i0 + 2)..(k - 1) :
                               t[n] = NL /\ \A m \in n..(k - 1) : t[m] = NL})
    IN  IF hits = {} THEN NoField
        ELSE [matched |-> TRUE, value |-> LineFrom(t, SkipSpace(t, k0))]

CitiQuestion == "Have you completed the CITI basic course"

\* ROLE\s*\n.*?\n\s*Have you completed the CITI basic course.*?\n.*?(tokens)
RoleStatus(t, role) ==
    LET hits == {i \in 1..Len(t) :
                    /\ t[i] = role /\ At(t, i + 1) = NL
                    /\ LabelAfter(t, i, CitiQuestion) # 0
                    /\ FirstIn(t, LabelAfter(t, i, CitiQuestion), {NL}) # 0
                    /\ FirstIn(t, FirstIn(t, LabelAfter(t, i, CitiQuestion), {NL}),
                               YesNoTokens) # 0}
        i0 == Least(hits)
    IN  IF hits = {} THEN NotFound
        ELSE t[FirstIn(t, FirstIn(t, LabelAfter(t, i0, CitiQuestion), {NL}), YesNoTokens)]

\* validate_email: the values that match ".+@.+\..+"
ValidEmails == {"pi@nu.edu.kz", "ra@nu.edu.kz", "ai@nu.edu.kz"}

\* The calendar of datetime: the leap years, and the number of days from
\* 1970-01-01 to a date.
IsLeap(year) == year % 4 = 0 /\ (year % 100 # 0 \/ year % 400 = 0)

LeapsBefore(year) == (year - 1) \div 4 - (year - 1) \div 100 + (year - 1) \div 400

DaysBeforeYear(year) == 365 * (year - 1970) + LeapsBefore(year) - LeapsBefore(1970)

DaysBeforeMonth(year, month) ==
    <<0, 31, 59, 90, 120, 151, 181, 212, 243, 273, 304, 334>>[month]
    + (IF month > 2 /\ IsLeap(year) THEN 1 ELSE 0)

DayNumber(year, month, day) == DaysBeforeYear(year) + DaysBeforeMonth(year, month) + day - 1

\* datetime.strptime(value, "%m/%d/%Y"): the month, the day and the year of
\* a value of DatesMDY.
Parsed(date) ==
    CASE date = "01/15/2025" -> [month |-> 1, day |-> 15, year |-> 2025]
      [] date = "06/30/2021" -> [month |-> 6, day |-> 30, year |-> 2021]
      [] date = "03/02/2022" -> [month |-> 3, day |-> 2,  year |-> 2022]
      [] date = "03/01/2022" -> [month |-> 3, day |-> 1,  year |-> 2022]
      [] date = "02/28/2022" -> [month |-> 2, day |-> 28, year |-> 2022]
      [] date = "06/16/2020" -> [month |-> 6, day |-> 16, year |-> 2020]
      [] date = "06/15/2020" -> [month |-> 6, day |-> 15, year |-> 2020]
      [] date = "06/14/2020" -> [month |-> 6, day |-> 14, year |-> 2020]

\* The day number of a date value that datetime.strptime(value, "%m/%d/%Y")
\* parses; its time of day is midnight.
DayOf(date) == DayNumber(Parsed(date).year, Parsed(date).month, Parsed(date).day)

ThreeYears == 3 * 365

\* An instant: a day number and the seconds since midnight.
Clock(day, second) == [day |-> day, second |-> second]

\* citi_date < datetime.now() - timedelta(days=3*365)
Older(citi_day, today) ==
    \/ citi_day < today.day - ThreeYears
    \/ citi_day = today.day - ThreeYears /\ 0 < today.second

\* The checks on a training completion date.
TrainingDate(value, who, today) ==
    IF Len(value) = 1 /\ value[1] \in DatesMDY
    THEN IF Older(DayOf(value[1]), today)
         THEN Err("CITI Training date is older than 3 years", who)
         ELSE Info("CITI Training date is valid", who)
    ELSE Err("CITI Training date is not in valid format (MM/DD/YYYY)", who)

PIRole == "Principal Investigator"

RARole == "Research Advisor:"

PIFields ==
    <<"Name:", "NU ID:", "NU School:", "Department:", "Position:", "E-mail address:",
      "Daytime Phone:", "Mobile phone:", "CITI Training completion date:">>

RAFields ==
    <<"Name:", "NU ID:", "NU School:", "Department:", "Position:", "E-mail address:",
      "CITI or alternative training completion date:">>

\* One pass of the loop over pi_fields or ra_fields.
TeamField(t, role, who, label, today) ==
    LET m == IF label = "Name:" THEN RoleName(t, role) ELSE RoleField(t, role, label)
    IN  IF Empty(m) THEN <<F("error", "Field is missing or empty", label, who, 0)>>
        ELSE <<F("info", "Field filled", label, who, 0)>>
             \o (IF label = "E-mail address:"
                    /\ ~(Len(m.value) = 1 /\ m.value[1] \in ValidEmails)
                 THEN Err("Invalid email format", label) ELSE <<>>)
             \o (IF label \in {"CITI Training completion date:",
                               "CITI or alternative training completion date:"}
                 THEN TrainingDate(m.value, who, today) ELSE <<>>)

TeamStatus(t, role, who) ==
    LET st == RoleStatus(t, role)
    IN  IF st = NotFound THEN Err("CITI training status not found", who)
        ELSE IF st = "No [x]" THEN Err("CITI training status is 'No'", who)
        ELSE IF st \in {"Yes [ ]", "No [ ]"}
             THEN Warn("CITI training status checkbox is not marked", who)
             ELSE Info("CITI training status is 'Yes'", who)

StudentCategories == <<"Undergraduate", "Masters", "PhD", "Other">>

\* For students:\s*\n\s*Undergraduate (box)\s*Masters (box)\s*PhD (box)\s*
\* Other (box)\s*\n\s*Course:\s*([^\n]*): the places of the four category
\* labels and of Course: after the heading at i, or <<>>.
StudentPlaces(t, i) ==
    LET u == SkipSpace(t, i)
        m == SkipSpace(t, u + 1)
        p == SkipSpace(t, m + 1)
        o == SkipSpace(t, p + 1)
        c == SkipSpace(t, o + 1)
    IN  IF /\ u > i + 1 /\ t[u] = "Undergraduate" /\ At(t, u + 1) \in BoxTokens
           /\ m # 0 /\ t[m] = "Masters" /\ At(t, m + 1) \in BoxTokens
           /\ p # 0 /\ t[p] = "PhD"     /\ At(t, p + 1) \in BoxTokens
           /\ o # 0 /\ t[o] = "Other"   /\ At(t, o + 1) \in BoxTokens
           /\ c > o + 2 /\ t[c] = "Course:"
        THEN <<u, m, p, o, c>> ELSE <<>>

StudentSection(t) ==
    LET hits == {i \in 1..Len(t) : t[i] = "For students:" /\ StudentPlaces(t, i) # <<>>}
    IN  IF hits = {} THEN <<>> ELSE StudentPlaces(t, Least(hits))

Part2Students(t) ==
    LET at == StudentSection(t)
        selected_categories ==
            SelectSeq(<<1, 2, 3, 4>>, LAMBDA n : t[at[n] + 1] = "[x]")
        v == SkipSpace(t, at[5])
        course == IF v = 0 THEN <<>> ELSE LineFrom(t, v)
    IN  IF at = <<>> THEN Err("For students section not found or improperly formatted", "")
        ELSE (IF Len(selected_categories) # 1
              THEN ErrN("Exactly one student category must be selected. Found", "",
                        Len(selected_categories))
              ELSE Info("Student category selected",
                        StudentCategories[selected_categories[1]]))
             \o (IF course = <<>>
                 THEN Err("Course field in For students section is missing or empty", "")
                 ELSE Info("Course field filled", ""))

AIAnchor == "Additional Investigator(s):"

\* The labels of additional_investigator_pattern, each at the beginning of
\* the line after the value of the one before, and the question after them.
AILabels ==
    <<"Name:", "NU ID:", "NU School:", "Department:", "Position:", "E-mail address:",
      CitiQuestion>>

AIDateLabel == "CITI or alternative training completion date:"

NoBlock == [ok |-> FALSE, values |-> <<>>, status |-> NotFound, date |-> <<>>, end |-> 0]

\* The places of the date label after the answer at g:
\* (tokens)\n\s*.*?\n\s*LABEL has two line breaks between them.
AIDatePlaces(t, g) ==
    {d \in (g + 3)..Len(t) : t[d] = AIDateLabel /\ t[d - 1] = NL}

\* ...course.*?\n.*?(tokens)\n\s*.*?\n\s*LABEL\s*([^\n]*) from the question
\* at q: the first answer that ends its line and has the date label after
\* it; "\s*" skips line breaks, so an empty date takes the next line.
AITail(t, q) ==
    LET gs == {g \in (q + 2)..Len(t) :
                  /\ t[g] \in YesNoTokens /\ At(t, g + 1) = NL
                  /\ \E n \in (q + 1)..(g - 1) : t[n] = NL
                  /\ AIDatePlaces(t, g) # {}}
        g0 == Least(gs)
        d0 == Least(AIDatePlaces(t, g0))
        v  == SkipSpace(t, d0)
        date == IF v = 0 THEN <<>> ELSE LineFrom(t, v)
    IN  IF gs = {} THEN NoBlock
        ELSE [ok |-> TRUE, values |-> <<>>, status |-> t[g0], date |-> date,
              end |-> IF v = 0 THEN Len(t) ELSE v + Len(date) - 1]

\* LABEL\s*([^\n]*)\n\s*NEXT... from the j-th label at k: "\s*" takes the
\* line breaks after an empty value and the group the next line, when the
\* rest matches after it; otherwise the group is empty.
RECURSIVE AIParse(_, _, _)
AIParse(t, k, j) ==
    IF j = Len(AILabels) THEN AITail(t, k)
    ELSE LET v == SkipSpace(t, k)
             value == IF v = 0 THEN <<>> ELSE LineFrom(t, v)
             next == IF v = 0 THEN 0 ELSE SkipSpace(t, v + Len(value) - 1)
             taken == IF next # 0 /\ At(t, v + Len(value)) = NL /\ t[next] = AILabels[j + 1]
                      THEN AIParse(t, next, j + 1) ELSE NoBlock
             empty == IF v # 0 /\ At(t, k + 1) = NL /\ t[v] = AILabels[j + 1]
                      THEN AIParse(t, v, j + 1) ELSE NoBlock
         IN  IF taken.ok THEN [taken EXCEPT !.values = <<value>> \o @]
             ELSE IF empty.ok THEN [empty EXCEPT !.values = <<<<>>>> \o @]
             ELSE NoBlock

\* Additional Investigator\(s\):.*?\n\s*Name:...: the first Name: at the
\* beginning of a line after the heading at h from which the rest matches.
AINames(t, h) ==
    {n \in (h + 2)..Len(t) : t[n] = AILabels[1] /\ t[n - 1] = NL /\ AIParse(t, n, 1).ok}

\* re.finditer: the matches from left to right, each after the end of the
\* one before.
RECURSIVE AdditionalInvestigators(_, _)
AdditionalInvestigators(t, from) ==
    LET hs == {h \in from..Len(t) : t[h] = AIAnchor /\ AINames(t, h) # {}}
    IN  IF hs = {} THEN <<>>
        ELSE LET match == The({AIParse(t, Least(AINames(t, h)), 1) : h \in {Least(hs)}})
             IN  <<match>> \o AdditionalInvestigators(t, match.end + 1)

\* fields, as the loop over them names them
AIFields ==
    <<"AI Name", "AI NU ID", "AI NU School", "AI Department", "AI Position",
      "AI E-mail address", "AI CITI or alternative training completion date">>

\* One pass of the loop over the fields of the match with the number count.
AIField(field_name, value, investigator_count, today) ==
    IF value = <<>>
    THEN <<F("error", "Additional Investigator: Field is missing or empty", field_name, "",
             investigator_count)>>
    ELSE <<F("info", "Additional Investigator: Field filled", field_name, "",
             investigator_count)>>
         \o (IF field_name = "AI E-mail address:"
                /\ ~(Len(value) = 1 /\ value[1] \in ValidEmails)
             THEN <<F("error", "Additional Investigator: Invalid email format", field_name, "",
                      investigator_count)>>
             ELSE <<>>)
         \o (IF field_name = "AI CITI or alternative training completion date"
             THEN [i \in {1} |-> [TrainingDate(value, "AI", today)[i]
                                     EXCEPT !.n = investigator_count]]
             ELSE <<>>)

AIStatus(citi_status, investigator_count) ==
    IF citi_status = "No [x]"
    THEN <<F("error", "CITI training status is 'No'", "AI", "", investigator_count)>>
    ELSE IF citi_status \in {"Yes [ ]", "No [ ]"}
         THEN <<F("warning", "CITI training status checkbox is not marked", "AI", "",
                  investigator_count)>>
         ELSE <<F("info", "CITI training status is 'Yes'", "AI", "", investigator_count)>>

\* The body of the loop over the matches: a match without a name is counted
\* and nothing else.
AIBlock(match, investigator_count, today) ==
    IF match.values[1] = <<>> THEN <<>>
    ELSE ConcatAll([i \in 1..Len(AIFields) |->
                       AIField(AIFields[i], (match.values \o <<match.date>>)[i],
                               investigator_count, today)])
         \o AIStatus(match.status, investigator_count)

Part2Investigators(t, today) ==
    LET matches == AdditionalInvestigators(t, 1)
    IN  IF matches = <<>> THEN Info("No Additional Investigators specified", "")
        ELSE ConcatAll([c \in 1..Len(matches) |-> AIBlock(matches[c], c, today)])

ValidatePart2(paras, today) ==
    LET t == SectionText(paras, 2)
        pi_name == RoleName(t, PIRole)
        pi_surname ==
            IF Empty(pi_name) THEN "" ELSE pi_name.value[Len(pi_name.value)]
        fs == (IF Empty(pi_name) THEN <<>> ELSE Info("PI Name, Surname extracted", pi_surname))
              \o ConcatAll([i \in 1..Len(PIFields) |->
                               TeamField(t, PIRole, "PI", PIFields[i], today)])
              \o TeamStatus(t, PIRole, "PI")
              \o ConcatAll([i \in 1..Len(RAFields) |->
                               TeamField(t, RARole, "RA", RAFields[i], today)])
              \o TeamStatus(t, RARole, "RA")
              \o Part2Investigators(t, today)
              \o Part2Students(t)
    IN  IF t = <<>>
        THEN [text |-> t, raises |-> FALSE,
              results |-> Results(Err("section not found", "Part 2")),
              pi_surname |-> ""]
        ELSE [text |-> t, raises |-> FALSE, results |-> Results(fs),
              pi_surname |-> pi_surname]

(***************************************************************************)
(* validate_part_3                                                         *)
(***************************************************************************)
\* A required form: the form, the words of its reason, and the languages
\* list the reason ends with (", ".join(languages)), <<>> when it names none.
Form(form, reason, languages) ==
    [form |-> form, reason |-> reason, languages |-> languages]

\* A list that takes new entries at its head.
AppendedFront(forms, new) == new \o forms

\* required_forms.append(...), for the entries one validator appends
Appended(forms, new) == forms \o new

SeedForms ==
    << Form("Appendix A: IREC Application Form", "Required for all submissions.", <<>>),
       Form("CITI Training Certificates", "Required for all team members.", <<>>) >>

AppendixB == "Appendix B: Written Informed Consent Form"
AppendixC == "Appendix C: Informed Consent Form for Internet Surveys"
AppendixD == "Appendix D: Oral Consent Script"
AppendixL == "Appendix L: Confidentiality Agreement Form"
InterviewGuides == "Interview Questions/Focus Group Guides"
RecruitmentMaterials == "Recruitment Materials (e.g., emails, flyers)"
Surveys == "Surveys/Questionnaires"

\* count_words: the words of an atom; an atom "<n words>" stands for a
\* stretch of n other words.
Words(a) ==
    CASE a = NL            -> 0
      [] a = "<100 words>" -> 100
      [] a = "<200 words>" -> 200
      [] a = "<260 words>" -> 260
      [] a = "<400 words>" -> 400
      [] OTHER             -> 1

RECURSIVE CountWords(_)
CountWords(value) ==
    IF value = <<>> THEN 0 ELSE Words(Head(value)) + CountWords(Tail(value))

PurposeQ     == "What is the purpose of the research?"
QuestionsQ   == "What question(s) do you hope to answer?"
MethodologyQ == "Describe the data collection methodology"
AnalysisQ    == "Briefly describe the data analysis processes"
SitesQ       == "Briefly describe the research sites"

\* fields: the name, the anchor, the terminator, min_words, max_words
\* (0, 0 stands for None, None).
Part3Fields ==
    << [name |-> "Purpose of the research", anchor |-> PurposeQ, term |-> {QuestionsQ},
        min |-> 250, max |-> 300],
       [name |-> "Research question(s)", anchor |-> QuestionsQ, term |-> {MethodologyQ},
        min |-> 0, max |-> 0],
       [name |-> "Data collection methodology", anchor |-> MethodologyQ,
        term |-> {AnalysisQ}, min |-> 250, max |-> 300],
       [name |-> "Data analysis processes", anchor |-> AnalysisQ, term |-> {SitesQ},
        min |-> 150, max |-> 300],
       [name |-> "Research sites", anchor |-> SitesQ, term |-> PartTerm(4),
        min |-> 0, max |-> 0] >>

Part3Field(t, f) ==
    LET m == FieldAfterNL(t, f.anchor, f.term)
        word_count == CountWords(m.value)
    IN  IF Empty(m) THEN Err("Field is missing or empty", f.name)
        ELSE Info("Field filled", f.name)
             \o (IF f.min = 0 \/ f.max = 0 THEN <<>>
                 ELSE IF word_count < f.min \/ word_count > f.max
                      THEN <<F("warning", "Field word count out of range", f.name, "",
                               word_count)>>
                      ELSE <<F("info", "Field word count is valid", f.name, "", word_count)>>)

\* languages, when the test for Kazakhstan comes second and is never reached
\* for a site outside the university.
LanguagesElifFirst(research_sites_text) ==
    IF research_sites_text # <<>>
       /\ ~HasTerm(research_sites_text, "nazarbayev university")
    THEN <<"English", "Official language(s) of the country">>
    ELSE IF HasTerm(research_sites_text, "kazakhstan")
         THEN <<"English", "Russian", "Kazakh">>
         ELSE <<"English">>

\* languages
\* languages, were every named site taken for an outside one.
LanguagesAnySite(research_sites_text) ==
    IF HasTerm(research_sites_text, "kazakhstan")
    THEN <<"English", "Russian", "Kazakh">>
    ELSE IF research_sites_text # <<>>
         THEN <<"English", "Official language(s) of the country">>
         ELSE <<"English">>

Languages(research_sites_text) ==
    IF HasTerm(research_sites_text, "kazakhstan")
    THEN <<"English", "Russian", "Kazakh">>
    ELSE IF research_sites_text # <<>>
            /\ ~HasTerm(research_sites_text, "nazarbayev university")
         THEN <<"English", "Official language(s) of the country">>
         ELSE <<"English">>

QualitativeCluster(languages) ==
    << Form(AppendixB, "Required for qualitative research in", languages),
       Form(AppendixD, "Required if oral consent is used in", languages),
       Form(InterviewGuides, "Required for qualitative methods.", <<>>),
       Form(RecruitmentMaterials, "Required for participant notification.", <<>>) >>

\* The forms of a mixed-methods study, were they the two clusters whole.
MixedMethodsUnion(methodology, languages) ==
    << Form(AppendixB, "Required for mixed methods in", languages),
       Form(RecruitmentMaterials, "Required for participant notification.", <<>>),
       Form(AppendixD, "Required if oral consent is used in", languages),
       Form(InterviewGuides, "Required for qualitative components.", <<>>),
       Form(Surveys, "Required for quantitative components.", <<>>) >>

\* The forms appended when "mixed method" is in the methodology.
MixedMethods(methodology, languages) ==
    << Form(AppendixB, "Required for mixed methods in", languages),
       Form(RecruitmentMaterials, "Required for participant notification.", <<>>) >>
    \o (IF HasTerm(methodology, "interview") \/ HasTerm(methodology, "focus group")
        THEN << Form(AppendixD, "Required if oral consent is used in", languages),
                Form(InterviewGuides, "Required for qualitative components.", <<>>) >>
        ELSE <<>>)
    \o (IF HasTerm(methodology, "survey")
        THEN <<Form(Surveys, "Required for quantitative components.", <<>>)>>
        ELSE <<>>)

\* The forms validate_part_3 appends, in order.
Part3Forms(methodology, research_sites_text) ==
    LET languages == Languages(research_sites_text)
    IN  (IF HasAny(methodology, {"interview", "focus group", "observation", "action research"})
         THEN QualitativeCluster(languages) ELSE <<>>)
        \o (IF HasAny(methodology, {"survey", "clinical trial", "existing data set",
                                    "human genetics"})
            THEN (IF HasTerm(methodology, "internet survey")
                     \/ HasTerm(methodology, "online survey")
                  THEN <<Form(AppendixC, "Required for internet surveys in", languages)>>
                  ELSE <<Form(AppendixB, "Required for quantitative research in", languages)>>)
                 \o <<Form(Surveys, "Required for quantitative methods.", <<>>)>>
            ELSE <<>>)
        \o (IF HasTerm(methodology, "mixed method")
            THEN MixedMethods(methodology, languages) ELSE <<>>)
        \o (IF HasTerm(methodology, "genetic") \/ HasTerm(methodology, "biobank")
            THEN <<Form("Appendix M: Written Informed Consent Form For Genetic and/or Biobank Research",
                        "Required for genetic/biobank research in", languages)>>
            ELSE <<>>)
        \o (IF HasTerm(methodology, "collaborator")
               \/ HasTerm(methodology, "external organization")
            THEN <<Form(AppendixL, "Required for external collaborators in", languages)>>
            ELSE <<>>)
        \o (IF research_sites_text # <<>>
               /\ ~HasTerm(research_sites_text, "nazarbayev university")
            THEN <<Form("Letters of Support/Approval from Outside Organizations",
                        "Required for external sites.", <<>>)>>
            ELSE <<>>)
        \o (IF HasTerm(methodology, "visual stimuli")
            THEN <<Form("Visual Stimuli", "Required if visual stimuli are presented.", <<>>)>>
            ELSE <<>>)

ValidatePart3(paras) ==
    LET t == SectionText(paras, 3)
        methodology_match == FieldAfterNL(t, MethodologyQ, {AnalysisQ})
        methodology_text ==
            IF Empty(methodology_match) THEN <<>> ELSE methodology_match.value
        research_sites == FieldAfterNL(t, SitesQ, PartTerm(4))
        research_sites_text == IF Empty(research_sites) THEN <<>> ELSE research_sites.value
        fs == ConcatAll([i \in 1..Len(Part3Fields) |-> Part3Field(t, Part3Fields[i])])
              \o (IF HasTerm(t, "attach") \/ HasTerm(t, "appendix")
                  THEN Info("References to attachments detected in Part 3", "")
                  ELSE Warn("No references to attachments detected in Part 3", ""))
    IN  IF t = <<>>
        THEN [text |-> t, raises |-> FALSE,
              results |-> Results(Err("section not found", "Part 3")),
              required_forms |-> SeedForms, methodology_text |-> <<>>]
        ELSE [text |-> t, raises |-> FALSE, results |-> Results(fs),
              required_forms |-> Appended(SeedForms,
                                          Part3Forms(methodology_text, research_sites_text)),
              methodology_text |-> methodology_text]

(***************************************************************************)
(* validate_part_4                                                         *)
(***************************************************************************)
\* special_populations: the name and the anchor of its pattern.
SpecialPopulations ==
    << [name |-> "Minors", anchor |-> "Minors (under 18 years of age)?"],
       [name |-> "Legally incompetent", anchor |-> "Legally incompetent?"],
       [name |-> "Prisoners", anchor |-> "Prisoners?"],
       [name |-> "Perinatal women", anchor |-> "Perinatal women"],
       [name |-> "Institutionalized", anchor |-> "Institutionalized?"],
       [name |-> "Mentally incapacitated", anchor |-> "Mentally incapacitated?"],
       [name |-> "Sexual behaviors", anchor |-> "Sexual behaviors?"],
       [name |-> "Drug use", anchor |-> "Drug use?"],
       [name |-> "Illegal conduct", anchor |-> "Illegal conduct?"],
       [name |-> "Use of alcohol", anchor |-> "Use of alcohol?"] >>

SensitiveSubjects == {"Sexual behaviors", "Drug use", "Illegal conduct", "Use of alcohol"}

PopulationAnswer(t, pop) == SearchAnywhere(t, pop.anchor, YesNoTokens)

\* One pass of the loop over special_populations: the findings.
Part4Population(t, pop) ==
    LET answer == PopulationAnswer(t, pop)
    IN  IF answer = NotFound THEN Err("Response not found or improperly formatted", pop.name)
        ELSE IF Unchecked(answer) THEN Warn("Checkbox is not marked", pop.name)
        ELSE IF answer = "Yes [x]" THEN Info("Special population selected: Yes", pop.name)
        ELSE Info("Special population selected: No", pop.name)

\* One pass of the loop over special_populations: the forms.
Part4PopulationForms(t, pop) ==
    IF PopulationAnswer(t, pop) # "Yes [x]" THEN <<>>
    ELSE IF pop.name = "Minors"
         THEN << Form("Appendix E: Assent Form", "Required for minors in",
                      <<"English", "Russian", "Kazakh">>),
                 Form("Parental Consent Forms", "Required for minors in",
                      <<"English", "Russian", "Kazakh">>) >>
         ELSE <<Form(AppendixB, "Required for special population in",
                     <<"English", "Russian", "Kazakh">>)>>
              \o (IF pop.name \in SensitiveSubjects
                  THEN <<Form(AppendixL, "Recommended for sensitive subjects", <<>>)>>
                  ELSE <<>>)

\* special_populations_yes
SpecialPopulationsYes(t) ==
    SelectSeq(SpecialPopulations, LAMBDA pop : PopulationAnswer(t, pop) = "Yes [x]")

\* The values "\d+" matches.
NumberAtoms == {"30"}

SampleSizeQ == "Expected number of participants or sample size:"

\* Expected number of participants or sample size:\s*(\d+)
SampleSize(t) ==
    \E i \in 1..Len(t) :
        t[i] = SampleSizeQ /\ SkipSpace(t, i) # 0 /\ t[SkipSpace(t, i)] \in NumberAtoms

ParticipantFields ==
    << [name |-> "Languages of communication", label |-> "Languages of communication:"],
       [name |-> "Gender, race or ethnic group", label |-> "Gender, race or ethnic group:"],
       [name |-> "Affiliation of participants", label |-> "Affiliation of participants:"],
       [name |-> "Mental health", label |-> "Participants' general state of mental health:"],
       [name |-> "Physical health",
        label |-> "Participants' general state of physical health:"] >>

Part4Field(t, f) ==
    IF Empty(LineField(t, f.label)) THEN Err("Field is missing or empty", f.name)
    ELSE Info("Field filled", f.name)

WhyGroupQ     == "Explain why you have chosen this particular group"
RelationshipQ == "What is your relationship to the participants?"
PowerQ        == "Does your relationship potentially create any power"
RecruitedQ    == "Will participants be recruited?"
ContactQ      == "How will you contact potential participants"
RecruitMethodQ == "Describe the method for recruiting participants"
ExclusionsQ   == "Exclusions:"
WithdrawalQ   == "Procedures in the event of a participant withdrawing"

\* ANCHOR.*?\n(.*?)(\n|$) with re.DOTALL: the line after the anchor's line.
NextLine(t, anchor) ==
    LET i == FirstIn(t, 1, {anchor})
        j == IF i = 0 THEN 0 ELSE FirstIn(t, i + 1, {NL})
    IN  IF j = 0 THEN NoField ELSE [matched |-> TRUE, value |-> LineFrom(t, j + 1)]

\* The findings on one of the two narratives that go with the recruitment
\* answer: contact method, recruitment method.
RecruitmentNarrative(answer, na, text, what) ==
    IF answer = "Yes [x]"
    THEN IF na = "N/A [x]" THEN Err("cannot be N/A when recruitment is Yes", what)
         ELSE IF Empty(text) THEN Err("description is missing or empty", what)
         ELSE Info("description provided", what)
    ELSE IF (na # NotFound /\ na # "N/A [x]") \/ ~Empty(text)
         THEN Err("should be N/A when recruitment is No", what)
         ELSE <<>>

Part4Recruitment(t) ==
    LET recruitment == SearchSameLine(t, RecruitedQ, YesNoTokens)
        contact_method_na == SearchAfterNL(t, ContactQ, NATokens)
        contact_method_text == FieldAfterNL(t, ContactQ, {RecruitMethodQ})
        recruitment_method_na == SearchAfterNL(t, RecruitMethodQ, NATokens)
        recruitment_method_text == FieldAfterNL(t, RecruitMethodQ, {ExclusionsQ})
    IN  IF recruitment = NotFound
        THEN Err("Recruitment question not found or improperly formatted", "")
        ELSE IF Unchecked(recruitment) THEN Warn("Recruitment checkbox is not marked", "")
        ELSE (IF recruitment = "Yes [x]" THEN Info("Participants will be recruited: Yes", "")
              ELSE Info("Participants will be recruited: No", ""))
             \o RecruitmentNarrative(recruitment, contact_method_na, contact_method_text,
                                     "Contact method")
             \o RecruitmentNarrative(recruitment, recruitment_method_na,
                                     recruitment_method_text, "Recruitment method")

OtherSpecialQ == "Other (please specify)"

\* Other \(please specify\)\s*([^\n]*) is truthy after strip()
OtherSpecial(t) == ~Empty(LineField(t, OtherSpecialQ))

\* Everything validate_part_4 appends to required_forms, in order.
Part4Forms(t) ==
    ConcatAll([i \in 1..Len(SpecialPopulations) |->
                  Part4PopulationForms(t, SpecialPopulations[i])])
    \o (IF OtherSpecial(t)
        THEN <<Form(AppendixB, "Required for other special populations.", <<>>)>> ELSE <<>>)
    \o (IF SearchSameLine(t, RecruitedQ, YesNoTokens) = "Yes [x]"
        THEN <<Form(RecruitmentMaterials, "Required for recruitment.", <<>>)>> ELSE <<>>)

ValidatePart4(paras, forms) ==
    LET t == SectionText(paras, 4)
        justification_na == SearchAfterNL(t, WhyGroupQ, NATokens)
        justification_text == FieldAfterNL(t, WhyGroupQ, {RelationshipQ})
        exclusions_na == SearchAfterNL(t, ExclusionsQ, NATokens)
        exclusions_text == FieldAfterNL(t, ExclusionsQ, {WithdrawalQ})
        fs == ConcatAll([i \in 1..Len(SpecialPopulations) |->
                            Part4Population(t, SpecialPopulations[i])])
              \o (IF OtherSpecial(t) THEN Info("Other special population", "") ELSE <<>>)
              \o (IF SampleSize(t) THEN Info("Sample size", "")
                  ELSE Err("Sample size is missing or invalid", ""))
              \o ConcatAll([i \in 1..Len(ParticipantFields) |->
                               Part4Field(t, ParticipantFields[i])])
              \o (IF justification_na = "N/A [x]"
                  THEN IF SpecialPopulationsYes(t) # <<>>
                       THEN Err("Justification cannot be N/A when special populations are selected", "")
                       ELSE Info("Justification marked as N/A", "")
                  ELSE IF ~Empty(justification_text) THEN Info("Justification provided", "")
                  ELSE Err("Justification is missing or empty", ""))
              \o (IF Empty(FieldAfterNL(t, RelationshipQ, {PowerQ}))
                  THEN Err("Relationship to participants is missing or empty", "")
                  ELSE Info("Relationship", ""))
              \o (IF Empty(NextLine(t, PowerQ))
                  THEN Err("Power dynamics description is missing or empty", "")
                  ELSE Info("Power dynamics", ""))
              \o Part4Recruitment(t)
              \o (IF exclusions_na = "N/A [x]" THEN Info("Exclusions marked as N/A", "")
                  ELSE IF ~Empty(exclusions_text) THEN Info("Exclusions description provided", "")
                  ELSE Err("Exclusions description is missing or empty", ""))
              \o (IF Empty(FieldAfterNL(t, WithdrawalQ, PartTerm(5)))
                  THEN Err("Withdrawal procedures description is missing or empty", "")
                  ELSE Info("Withdrawal procedures description provided", ""))
    IN  IF t = <<>>
        THEN [text |-> t, raises |-> FALSE,
              results |-> Results(Err("section not found", "Part 4")),
              required_forms |-> forms]
        ELSE [text |-> t, raises |-> FALSE, results |-> Results(fs),
              required_forms |-> Appended(forms, Part4Forms(t))]

(***************************************************************************)
(* validate_part_5                                                         *)
(***************************************************************************)
\* validate_date_format(value, "%m/%Y"): the values of shape \d{2}/\d{4}, each
\* with the month and year strptime reads, month 0 when it raises ValueError.
MonthYear(a) ==
    CASE a = "01/2025" -> [month |-> 1, year |-> 2025]
      [] a = "12/2025" -> [month |-> 12, year |-> 2025]
      [] a = "01/2026" -> [month |-> 1, year |-> 2026]
      [] a = "02/2026" -> [month |-> 2, year |-> 2026]
      [] a = "01/2027" -> [month |-> 1, year |-> 2027]
      [] a = "13/2025" -> [month |-> 0, year |-> 0]
      [] a = "00/2025" -> [month |-> 0, year |-> 0]
      [] a = "01/0000" -> [month |-> 0, year |-> 0]

MonthYearAtoms == {"01/2025", "12/2025", "01/2026", "02/2026", "01/2027", "13/2025", "00/2025", "01/0000"}

DatesQ == "When is the data collection for the research intended to begin and end?"

\* DATESQ.*?\n\s*(\d{2}/\d{4})\s*to\s*(\d{2}/\d{4}) without re.DOTALL: the places of
\* the two dates after the anchor at i, or <<>>.
DatePlaces(t, i) ==
    LET j  == FirstIn(t, i + 1, {NL})
        d1 == IF j = 0 THEN 0 ELSE SkipSpace(t, j)
        to == IF d1 = 0 THEN 0 ELSE SkipSpace(t, d1)
        d2 == IF to = 0 THEN 0 ELSE SkipSpace(t, to)
    IN  IF /\ d2 # 0 /\ t[d1] \in MonthYearAtoms /\ t[to] = "to"
           /\ t[d2] \in MonthYearAtoms
        THEN <<d1, d2>> ELSE <<>>

\* The comparison with the bound taken as reached at twelve months.
ExceedsOneYearInclusive(start_date, end_date) ==
    (end_date.year - start_date.year) * 12 + end_date.month - start_date.month >= 12

\* delta = (end.year - start.year) * 12 + end.month - start.month; delta > 12.
ExceedsOneYear(start_date, end_date) ==
    LET delta == (end_date.year - start_date.year) * 12 + end_date.month - start_date.month
    IN  delta > 12

Part5Dates(t) ==
    LET hits == {i \in 1..Len(t) : t[i] = DatesQ /\ DatePlaces(t, i) # <<>>}
        at == DatePlaces(t, Least(hits))
        start_date == MonthYear(t[at[1]])
        end_date == MonthYear(t[at[2]])
    IN  IF hits = {} THEN Err("Data collection dates are missing or improperly formatted", "")
        ELSE IF start_date.month = 0 \/ end_date.month = 0
             THEN Err("Data collection dates must be in MM/YYYY format", "")
             ELSE Info("Data collection dates", "")
                  \o (IF ExceedsOneYear(start_date, end_date)
                      THEN Err("Data collection period exceeds one year", "")
                      ELSE <<>>)

InvolvedQ    == "Describe how subjects will be involved in detail"
AdministerQ  == "Will you be the one administering"
DiscomfortQ  == "Will the participants experience any discomfort?"
ExplainQ     == "If 'Yes', please explain"
DeceptionQ   == "Will deception or false or misleading information be used"
DeceptionWhyQ == "If 'Yes', explain why deception is necessary"

\* The terminator "Will deception or false or misleading" is the beginning of
\* the deception question: the same atom.
Part5Discomfort(t) ==
    LET discomfort == SearchSameLine(t, DiscomfortQ, YesNoTokens)
        discomfort_na == SearchAfterNL(t, ExplainQ, NATokens)
        discomfort_explanation == FieldAfterNL(t, ExplainQ, {DeceptionQ})
    IN  IF discomfort = NotFound
        THEN Err("Discomfort question not found or improperly formatted", "")
        ELSE IF Unchecked(discomfort) THEN Warn("Discomfort checkbox is not marked", "")
        ELSE IF discomfort = "Yes [x]"
        THEN Info("Discomfort: Yes", "")
             \o (IF discomfort_na = "N/A [x]"
                 THEN Err("Discomfort explanation cannot be N/A when discomfort is Yes", "")
                 ELSE IF Empty(discomfort_explanation)
                      THEN Err("Discomfort explanation is missing or empty", "")
                      ELSE Info("Discomfort explanation provided", ""))
        ELSE Info("Discomfort: No", "")
             \o (IF ~Empty(discomfort_explanation)
                 THEN Warn("Discomfort explanation provided when discomfort is No", "")
                 ELSE <<>>)

Part5Deception(t) ==
    LET deception == SearchAfterNL(t, DeceptionQ, YesNoTokens)
        deception_na == SearchAfterNL(t, DeceptionWhyQ, NATokens)
        deception_explanation == FieldAfterNL(t, DeceptionWhyQ, PartTerm(6))
    IN  IF deception = NotFound
        THEN Err("Deception question not found or improperly formatted", "")
        ELSE IF Unchecked(deception) THEN Warn("Deception checkbox is not marked", "")
        ELSE IF deception = "Yes [x]"
        THEN Info("Deception: Yes", "")
             \o (IF deception_na = "N/A [x]"
                 THEN Err("Deception explanation cannot be N/A when deception is Yes", "")
                 ELSE IF Empty(deception_explanation)
                      THEN Err("Deception explanation is missing or empty", "")
                      ELSE Info("Deception explanation provided", ""))
        ELSE Info("Deception: No", "")
             \o (IF ~Empty(deception_explanation)
                 THEN Warn("Deception explanation provided when deception is No", "")
                 ELSE <<>>)

\* involvement_text
InvolvementText(t) ==
    LET involvement == FieldAfterNL(t, InvolvedQ, {AdministerQ})
    IN  IF Empty(involvement) THEN <<>> ELSE involvement.value

\* Everything validate_part_5 appends to required_forms, in order.
Part5Forms(t) ==
    (IF HasTerm(InvolvementText(t), "debriefing")
     THEN <<Form("Debriefing Documents", "Required if debriefing is part of the process.",
                 <<>>)>>
     ELSE <<>>)
    \o (IF SearchSameLine(t, DiscomfortQ, YesNoTokens) = "Yes [x]"
        THEN <<Form(AppendixB, "Required for discomfort, with precautions.", <<>>)>>
        ELSE <<>>)
    \o (IF SearchAfterNL(t, DeceptionQ, YesNoTokens) = "Yes [x]"
        THEN << Form(AppendixB, "Required for deception, with debriefing.", <<>>),
                Form("Debriefing Documents", "Required for deception.", <<>>) >>
        ELSE <<>>)

ValidatePart5(paras, forms) ==
    LET t == SectionText(paras, 5)
        fs == Part5Dates(t)
              \o (IF InvolvementText(t) = <<>>
                  THEN Err("Participant involvement description is missing or empty", "")
                  ELSE Info("Participant involvement description provided", ""))
              \o (IF Empty(FieldAfterNL(t, AdministerQ, {DiscomfortQ}))
                  THEN Err("Data collection administration description is missing or empty", "")
                  ELSE Info("Data collection administration description provided", ""))
              \o Part5Discomfort(t)
              \o Part5Deception(t)
    IN  IF t = <<>>
        THEN [text |-> t, raises |-> FALSE,
              results |-> Results(Err("section not found", "Part 5")),
              required_forms |-> forms, involvement_text |-> <<>>]
        ELSE [text |-> t, raises |-> FALSE, results |-> Results(fs),
              required_forms |-> Appended(forms, Part5Forms(t)),
              involvement_text |-> InvolvementText(t)]

(***************************************************************************)
(* validate_part_6                                                         *)
(***************************************************************************)
ESurveyQ     == "Are you conducting a survey using any electronic media?"
NamePrivacyQ == "Will you assure that the participant will only see his/her name?"
ReadReceiptQ == "Will you have the 'read receipt' function turned off?"
ExplainNoQ   == "If you answered 'No' to these questions, please explain"
SurveyQuestionsQ == "If your survey contains questions"
DropdownQ    == "Do they have the option to choose 'No response'"
TransmitQ    == "How will data be transmitted?"
UrlQ         == "What is the URL?"
StoredQ      == "Where will data be stored?"
MaintainedQ  == "How will data be maintained?"
SharedQ      == "Will data be shared?"
SharingHowQ  == "How? With whom? Will subjects be re-identifiable? Why or why not?"
SecurityQ    == "Describe the data security plan"

DropdownTokens == YesNoTokens \cup {"No dropdown menu [x]", "No dropdown menu [ ]"}

\* ANCHOR.*?\n\s*([^\n]*): the first line with text after the anchor's line.
\* (With re.DOTALL the lazy ".*?" still stops at the first line break.)
TextLineAfter(t, anchor) ==
    LET i == FirstIn(t, 1, {anchor})
        j == IF i = 0 THEN 0 ELSE FirstIn(t, i + 1, {NL})
        v == IF j = 0 THEN 0 ELSE SkipSpace(t, j)
    IN  IF j = 0 THEN NoField
        ELSE [matched |-> TRUE, value |-> IF v = 0 THEN <<>> ELSE LineFrom(t, v)]

\* The branch survey_answer == "Yes [x]".
Part6SurveyYes(t) ==
    LET name_privacy == SearchSameLine(t, NamePrivacyQ, YesNoTokens)
        read_receipt == SearchSameLine(t, ReadReceiptQ, YesNoTokens)
        email_explanation == FieldAfterNL(t, ExplainNoQ, {SurveyQuestionsQ})
        dropdown == SearchSameLine(t, DropdownQ, DropdownTokens)
    IN  (IF name_privacy = NotFound
         THEN Err("Name privacy question not found or improperly formatted", "")
         ELSE InfoTok("Name privacy", "", name_privacy))
        \o (IF read_receipt = NotFound
            THEN Err("Read receipt question not found or improperly formatted", "")
            ELSE InfoTok("Read receipt", "", read_receipt))
        \o (IF name_privacy = "No [x]" \/ read_receipt = "No [x]"
            THEN IF Empty(email_explanation)
                 THEN Err("Explanation for 'No' in email invitation questions is missing or empty", "")
                 ELSE Info("Explanation for 'No' in email invitation provided", "")
            ELSE <<>>)
        \o (IF dropdown = NotFound
            THEN Err("Dropdown menu question not found or improperly formatted", "")
            ELSE InfoTok("Dropdown menu", "", dropdown))
        \o (IF Empty(FieldAfterNL(t, TransmitQ, {UrlQ}))
            THEN Err("Data transmission description is missing or empty", "")
            ELSE Info("Data transmission description provided", ""))
        \o (IF Empty(TextLineAfter(t, UrlQ))
            THEN Err("URL is missing or empty for electronic survey", "")
            ELSE Info("Survey URL", ""))

\* The branch survey_answer == "No [x]": the loop over the five fields.
Part6SurveyNo(t) ==
    LET answered(anchor, G) ==
            LET tok == SearchAnywhere(t, anchor, G)
            IN  tok # NotFound /\ tok \notin {"Yes [ ]", "No [ ]", "No dropdown menu [ ]"}
        should(field) == Err("should be unanswered or empty when electronic survey is No", field)
    IN  (IF answered(NamePrivacyQ, YesNoTokens) THEN should("Name privacy") ELSE <<>>)
        \o (IF answered(ReadReceiptQ, YesNoTokens) THEN should("Read receipt") ELSE <<>>)
        \o (IF answered(DropdownQ, DropdownTokens) THEN should("Dropdown menu") ELSE <<>>)
        \o (IF ~Empty(FieldAfterNL(t, TransmitQ, {UrlQ})) THEN should("Data transmission")
            ELSE <<>>)
        \o (IF ~Empty(TextLineAfter(t, UrlQ)) THEN should("URL") ELSE <<>>)

\* storage_text, maintenance_text
StorageText(t) == TextLineAfter(t, StoredQ).value

MaintenanceText(t) == FieldAfterNL(t, MaintainedQ, {SharedQ}).value

\* sharing_text: set only when the sharing question is checked.
SharingText(t) ==
    LET sharing == SearchSameLine(t, SharedQ, YesNoTokens)
    IN  IF sharing = NotFound \/ Unchecked(sharing) THEN <<>>
        ELSE FieldAfterNL(t, SharingHowQ, {SecurityQ}).value

Part6Sharing(t) ==
    LET sharing == SearchSameLine(t, SharedQ, YesNoTokens)
    IN  IF sharing = NotFound
        THEN Err("Data sharing question not found or improperly formatted", "")
        ELSE IF Unchecked(sharing) THEN Warn("Data sharing checkbox is not marked", "")
        ELSE InfoTok("Data sharing", "", sharing)
             \o (IF SharingText(t) = <<>> THEN Err("Data sharing details are missing or empty", "")
                 ELSE Info("Data sharing details", ""))

\* The part of validate_part_6 after the electronic survey block.
Part6Rest(t) ==
    (IF StorageText(t) = <<>> THEN Err("Data storage description is missing or empty", "")
     ELSE Info("Data storage", ""))
    \o (IF MaintenanceText(t) = <<>>
        THEN Err("Data maintenance description is missing or empty", "")
        ELSE Info("Data maintenance", ""))
    \o Part6Sharing(t)
    \o (IF Empty(FieldAfterNL(t, SecurityQ, PartTerm(7)))
        THEN Err("Data security plan description is missing or empty", "")
        ELSE Info("Data security plan", ""))

\* Everything validate_part_6 appends to required_forms, in order, when the
\* electronic survey question is checked.
Part6Forms(t) ==
    (IF SearchSameLine(t, ESurveyQ, YesNoTokens) = "Yes [x]"
     THEN <<Form(AppendixC, "Required for internet surveys.", <<>>)>> ELSE <<>>)
    \o (IF HasTerm(MaintenanceText(t), "identifiable")
        THEN <<Form(AppendixL, "Recommended for identifiable data.", <<>>)>> ELSE <<>>)
    \o (IF SearchSameLine(t, SharedQ, YesNoTokens) = "Yes [x]"
           /\ HasTerm(SharingText(t), "identifiable")
        THEN <<Form(AppendixL, "Required for sharing identifiable data.", <<>>)>> ELSE <<>>)

Part6Out(t, fs, forms, maintenance, sharing, storage) ==
    [text |-> t, raises |-> FALSE, results |-> Results(fs), required_forms |-> forms,
     maintenance_text |-> maintenance, sharing_text |-> sharing, storage_text |-> storage]

ValidatePart6(paras, forms) ==
    LET t == SectionText(paras, 6)
        survey_answer == SearchSameLine(t, ESurveyQ, YesNoTokens)
    IN  IF t = <<>>
        THEN Part6Out(t, Err("section not found", "Part 6"), forms, <<>>, <<>>, <<>>)
        ELSE IF survey_answer = NotFound
        THEN Part6Out(t, Err("Electronic survey question not found or improperly formatted", ""),
                      forms, <<>>, <<>>, <<>>)
        ELSE IF Unchecked(survey_answer)
        THEN Part6Out(t, Warn("Electronic survey checkbox is not marked", ""),
                      forms, <<>>, <<>>, <<>>)
        ELSE Part6Out(t,
                      InfoTok("Electronic survey", "", survey_answer)
                      \o (IF survey_answer = "Yes [x]" THEN Part6SurveyYes(t)
                          ELSE Part6SurveyNo(t))
                      \o Part6Rest(t),
                      Appended(forms, Part6Forms(t)),
                      MaintenanceText(t), SharingText(t), StorageText(t))

(***************************************************************************)
(* validate_part_7                                                         *)
(***************************************************************************)
MinimalRiskQ == "Do you believe those risks will be no greater than minimal?"
ExplainWhyQ  == "Explain why:"
AllRisksQ    == "Describe all risks"
GreaterQ     == "If risks are greater than minimal"
EssentialQ   == "Explain why these risks are essential"
MinimizeQ    == "What have you done to minimize risks"
ProtectionsQ == "What protections have you put in place"
AdverseQ     == "What procedures have you established for reporting adverse events"
BenefitQ     == "Will the participants directly or indirectly benefit"
PleaseExplainQ == "Please explain:"
SocietyQ     == "What are the anticipated benefits to society"
IncentivesQ  == "Will incentives be offered"
DescribeQ    == "If 'Yes', please describe"

\* risk_fields: the name, the anchor, the terminator.  The terminator
\* "What procedures have you established" is the beginning of the anchor of
\* the last field, and "Will the participants directly" that of the benefit
\* question.
RiskFields ==
    << [name |-> "Why risks are essential", anchor |-> EssentialQ, term |-> {MinimizeQ}],
       [name |-> "Minimize risks", anchor |-> MinimizeQ, term |-> {ProtectionsQ}],
       [name |-> "Protections", anchor |-> ProtectionsQ, term |-> {AdverseQ}],
       [name |-> "Adverse events reporting", anchor |-> AdverseQ, term |-> {BenefitQ}] >>

Part7RiskField(t, f) ==
    IF Empty(FieldAfterNL(t, f.anchor, f.term)) THEN Err("description is missing or empty", f.name)
    ELSE Info("description provided", f.name)

Part7MinimalRisk(t) ==
    LET minimal_risk == SearchSameLine(t, MinimalRiskQ, YesNoTokens)
    IN  IF minimal_risk = NotFound
        THEN Err("Minimal risk question not found or improperly formatted", "")
        ELSE (IF Unchecked(minimal_risk) THEN Warn("Minimal risk checkbox is not marked", "")
              ELSE InfoTok("Minimal risk", "", minimal_risk))
             \o (IF Empty(FieldAfterNL(t, ExplainWhyQ, {AllRisksQ}))
                 THEN Err("Minimal risk explanation is missing or empty", "")
                 ELSE Info("Minimal risk explanation provided", ""))

Part7Risks(t) ==
    LET risks == FieldAfterNL(t, AllRisksQ, {GreaterQ})
    IN  IF Empty(risks) THEN Err("Risks description is missing or empty", "")
        ELSE IF Len(risks.value) = 1 /\ Lower(risks.value[1]) \in {"not applicable", "no risk"}
             THEN Err("Risks description cannot be 'Not Applicable' or 'No risk'", "")
             ELSE Info("Risks description", "")

\* The benefit question is checked and its explanation is there.
BenefitsExplained(t) ==
    LET participant_benefits == SearchAfterNL(t, BenefitQ, YesNoTokens)
    IN  /\ participant_benefits # NotFound /\ ~Unchecked(participant_benefits)
        /\ ~Empty(FieldAfterNL(t, PleaseExplainQ, {SocietyQ}))

Part7Benefits(t) ==
    LET participant_benefits == SearchAfterNL(t, BenefitQ, YesNoTokens)
    IN  IF participant_benefits = NotFound
        THEN Err("Participant benefits question not found or improperly formatted", "")
        ELSE IF Unchecked(participant_benefits)
        THEN Warn("Participant benefits checkbox is not marked", "")
        ELSE InfoTok("Participant benefits", "", participant_benefits)
             \o (IF BenefitsExplained(t) THEN Info("Participant benefits explanation provided", "")
                 ELSE Err("Participant benefits explanation is missing or empty", ""))

Part7Incentives(t) ==
    LET incentives == SearchAfterNL(t, IncentivesQ, YesNoTokens)
        incentives_details == FieldAfterNL(t, DescribeQ, PartTerm(8))
    IN  IF incentives = NotFound
        THEN Err("Incentives question not found or improperly formatted", "")
        ELSE IF Unchecked(incentives) THEN Warn("Incentives checkbox is not marked", "")
        ELSE IF incentives = "Yes [x]"
        THEN Info("Incentives: Yes", "")
             \o (IF Empty(incentives_details) THEN Err("Incentives description is missing or empty", "")
                 ELSE Info("Incentives description provided", ""))
        ELSE Info("Incentives: No", "")
             \o (IF ~Empty(incentives_details)
                 THEN Warn("Incentives description provided when incentives is No", "")
                 ELSE <<>>)

\* Everything validate_part_7 appends to required_forms, in order.
Part7Forms(t) ==
    (IF SearchSameLine(t, MinimalRiskQ, YesNoTokens) = "No [x]"
     THEN <<Form(AppendixB, "Required for greater than minimal risk.", <<>>)>> ELSE <<>>)
    \o (IF BenefitsExplained(t) /\ SearchAfterNL(t, BenefitQ, YesNoTokens) = "Yes [x]"
        THEN <<Form(AppendixB, "Required to detail participant benefits.", <<>>)>> ELSE <<>>)
    \o (IF SearchAfterNL(t, IncentivesQ, YesNoTokens) = "Yes [x]"
        THEN <<Form(AppendixB, "Required for incentives, with details.", <<>>)>> ELSE <<>>)

ValidatePart7(paras, forms) ==
    LET t == SectionText(paras, 7)
        fs == Part7MinimalRisk(t)
              \o Part7Risks(t)
              \o (IF SearchSameLine(t, MinimalRiskQ, YesNoTokens) = "No [x]"
                  THEN ConcatAll([i \in 1..Len(RiskFields) |-> Part7RiskField(t, RiskFields[i])])
                  ELSE <<>>)
              \o Part7Benefits(t)
              \o (IF Empty(FieldAfterNL(t, SocietyQ, {IncentivesQ}))
                  THEN Err("Societal benefits description is missing or empty", "")
                  ELSE Info("Societal benefits description provided", ""))
              \o Part7Incentives(t)
    IN  IF t = <<>>
        THEN [text |-> t, raises |-> FALSE,
              results |-> Results(Err("section not found", "Part 7")),
              required_forms |-> forms]
        ELSE [text |-> t, raises |-> FALSE, results |-> Results(fs),
              required_forms |-> Appended(forms, Part7Forms(t))]

(***************************************************************************)
(* validate_part_8                                                         *)
(***************************************************************************)
RecordingsQ  == "Will you be video recording"
ConsentQ     == "Will you be obtaining signed consent forms"
IdentifiableQ == "Will the data be identifiable"
AnonymityQ   == "Describe procedures to create/preserve anonymity"
ConfidentialityQ == "Describe procedures to preserve confidentiality"
CollectionQ  == "During data collection"
AnalyzedQ    == "While results are analyzed"
PublicationQ == "In publication/reporting"
StorageQ     == "In storage after research completion"

RecordingTerms == {"video", "audio", "photograph", "recording", "interview via video"}

\* The block on the recordings question, with consistency rule A.
Part8Recordings(t, methodology_text, involvement_text) ==
    LET recordings_answer == SearchAfterNL(t, RecordingsQ, YesNoTokens)
    IN  IF recordings_answer = NotFound
        THEN Err("Recordings question not found or improperly formatted", "")
        ELSE IF Unchecked(recordings_answer) THEN Warn("Recordings checkbox is not marked", "")
        ELSE InfoTok("Video/Photograph/Audio Recordings", "", recordings_answer)
             \o (IF HasAny(methodology_text, RecordingTerms)
                    \/ HasAny(involvement_text, RecordingTerms)
                 THEN IF recordings_answer # "Yes [x]"
                      THEN Err("Part 8.1 should be 'Yes' as Parts 3 or 5 mention video/audio/photograph", "")
                      ELSE <<>>
                 ELSE IF recordings_answer = "Yes [x]"
                      THEN Warn("Part 8.1 is 'Yes' but no video/audio/photograph mentioned in Parts 3 or 5", "")
                      ELSE <<>>)

\* The block on the consent question.  It reads recordings_answer, which is
\* assigned only when the recordings question matched.
Part8Consent(t) ==
    LET recordings_answer == SearchAfterNL(t, RecordingsQ, YesNoTokens)
        consent_answer == SearchAfterNL(t, ConsentQ, YesNoTokens)
    IN  IF consent_answer = NotFound
        THEN Err("Consent for recordings question not found or improperly formatted", "")
        ELSE IF Unchecked(consent_answer)
        THEN Warn("Consent for recordings checkbox is not marked", "")
        ELSE InfoTok("Consent for recordings", "", consent_answer)
             \o (IF recordings_answer = "Yes [x]" /\ consent_answer # "Yes [x]"
                 THEN Err("Consent for recordings must be 'Yes' when recordings is 'Yes'", "")
                 ELSE <<>>)
             \o (IF recordings_answer = "No [x]" /\ consent_answer = "Yes [x]"
                 THEN Err("Consent for recordings should be 'No' or unanswered when recordings is 'No'", "")
                 ELSE <<>>)

\* The block on the identifiability question, with consistency rule B.
Part8Identifiability(t, maintenance_text, sharing_text, storage_text) ==
    LET identifiability_answer == SearchAfterNL(t, IdentifiableQ, YesNoTokens)
        identifiability_explanation == FieldAfterNL(t, ExplainQ, {AnonymityQ})
        part6 == \/ HasTerm(maintenance_text, "identifiable")
                 \/ HasTerm(sharing_text, "identifiable")
                 \/ HasTerm(storage_text, "identifiable")
    IN  IF identifiability_answer = NotFound
        THEN Err("Identifiability question not found or improperly formatted", "")
        ELSE IF Unchecked(identifiability_answer)
        THEN Warn("Identifiability checkbox is not marked", "")
        ELSE InfoTok("Identifiability", "", identifiability_answer)
             \o (IF identifiability_answer = "Yes [x]"
                 THEN (IF Empty(identifiability_explanation)
                       THEN Err("Identifiability explanation is missing or empty when identifiability is Yes", "")
                       ELSE Info("Identifiability explanation provided", ""))
                      \o (IF part6
                          THEN Info("Identifiability in Part 8 is consistent with Part 6", "")
                          ELSE Warn("Part 8.3 is 'Yes' but Part 6 does not mention identifiable data", ""))
                 ELSE IF part6
                      THEN Err("Part 8.3 should be 'Yes' as Part 6 mentions identifiable data", "")
                      ELSE <<>>)

\* The block on the anonymity narrative; identifiability_answer is bound.
Part8Anonymity(t) ==
    LET identifiability_answer == SearchAfterNL(t, IdentifiableQ, YesNoTokens)
        anonymity_na == SearchAfterNL(t, AnonymityQ, NATokens)
        anonymity_procedures == FieldAfterNL(t, AnonymityQ, {ConfidentialityQ})
    IN  IF identifiability_answer = "No [x]"
        THEN IF anonymity_na = "N/A [x]"
             THEN Err("Anonymity procedures cannot be N/A when identifiability is No", "")
             ELSE IF Empty(anonymity_procedures)
                  THEN Err("Anonymity procedures description is missing or empty when identifiability is No", "")
                  ELSE Info("Anonymity procedures description provided", "")
        ELSE (IF anonymity_na # NotFound /\ anonymity_na # "N/A [x]"
              THEN Err("Anonymity procedures should be N/A when identifiability is Yes", "")
              ELSE <<>>)
             \o (IF ~Empty(anonymity_procedures)
                 THEN Err("Anonymity procedures should be empty when identifiability is Yes", "")
                 ELSE <<>>)

\* confidentiality_fields: the name (its anchor) and the terminator.
ConfidentialityFields ==
    << [name |-> CollectionQ, term |-> {AnalyzedQ}],
       [name |-> AnalyzedQ, term |-> {PublicationQ}],
       [name |-> PublicationQ, term |-> {StorageQ}],
       [name |-> StorageQ, term |-> PartTerm(10)] >>

Part8Phase(t, f, identifiable) ==
    LET m == FieldAfterNL(t, f.name, f.term)
    IN  IF identifiable
        THEN IF Empty(m) THEN Err("Confidentiality procedures are missing or empty", f.name)
             ELSE Info("Confidentiality procedures provided", f.name)
        ELSE IF ~Empty(m)
             THEN Warn("Confidentiality procedures should be empty when identifiability is No",
                       f.name)
             ELSE <<>>

\* Everything validate_part_8 appends to required_forms, in order.
Part8Forms(t) ==
    (IF SearchAfterNL(t, RecordingsQ, YesNoTokens) = "Yes [x]"
     THEN <<Form(AppendixB, "Required for recordings.", <<>>)>> ELSE <<>>)
    \o (IF SearchAfterNL(t, IdentifiableQ, YesNoTokens) = "Yes [x]"
        THEN <<Form(AppendixL, "Required for identifiable data.", <<>>)>> ELSE <<>>)

\* validate_part_8 reads a local that was never assigned (UnboundLocalError):
\* recordings_answer in the consent block, when the recordings question did
\* not match and the consent answer is checked; identifiability_answer after
\* the identifiability block, when that question did not match.
Part8Raises(t) ==
    LET consent_answer == SearchAfterNL(t, ConsentQ, YesNoTokens)
    IN  \/ /\ SearchAfterNL(t, RecordingsQ, YesNoTokens) = NotFound
           /\ consent_answer # NotFound /\ ~Unchecked(consent_answer)
        \/ SearchAfterNL(t, IdentifiableQ, YesNoTokens) = NotFound

ValidatePart8(paras, forms, methodology_text, involvement_text, maintenance_text, sharing_text, storage_text) ==
    LET t == SectionText(paras, 8)
        identifiable == SearchAfterNL(t, IdentifiableQ, YesNoTokens) = "Yes [x]"
        fs == Part8Recordings(t, methodology_text, involvement_text)
              \o Part8Consent(t)
              \o Part8Identifiability(t, maintenance_text, sharing_text, storage_text)
              \o Part8Anonymity(t)
              \o ConcatAll([i \in 1..Len(ConfidentialityFields) |->
                               Part8Phase(t, ConfidentialityFields[i], identifiable)])
    IN  IF t = <<>>
        THEN [text |-> t, raises |-> FALSE,
              results |-> Results(Err("section not found", "Part 8")),
              required_forms |-> forms]
        ELSE IF Part8Raises(t)
        THEN [text |-> t, raises |-> TRUE, results |-> EmptyResults,
              required_forms |-> Appended(forms, Part8Forms(t))]
        ELSE [text |-> t, raises |-> FALSE, results |-> Results(fs),
              required_forms |-> Appended(forms, Part8Forms(t))]

(***************************************************************************)
(* validate_part_10                                                        *)
(***************************************************************************)
FundingQ  == "Is this project being supported by any funding sources?"
SourceQ   == "If yes, please specify the funding source(s):"
ExternalQ == "Is the funding external to Nazarbayev University?"

\* The terminator "Is the funding external" is the beginning of ExternalQ.
Part10Funding(t) ==
    LET funding_answer == SearchSameLine(t, FundingQ, YesNoTokens)
        source == FieldAfterNL(t, SourceQ, {ExternalQ})
        external == SearchSameLine(t, ExternalQ, YesNoTokens)
    IN  IF funding_answer = NotFound
        THEN Err("Funding question not found or improperly formatted", "")
        ELSE IF Unchecked(funding_answer) THEN Warn("Funding checkbox is not marked", "")
        ELSE InfoTok("Project funding", "", funding_answer)
             \o (IF funding_answer = "Yes [x]"
                 THEN (IF Empty(source) THEN Err("Funding source description is missing or empty", "")
                       ELSE Info("Funding source", ""))
                      \o (IF external = NotFound
                          THEN Err("External funding question not found or improperly formatted", "")
                          ELSE IF Unchecked(external)
                          THEN Warn("External funding checkbox is not marked", "")
                          ELSE InfoTok("External funding", "", external))
                 ELSE (IF ~Empty(source)
                       THEN Err("Funding source should be empty when funding is No", "")
                       ELSE <<>>)
                      \o (IF external # NotFound /\ external \notin {"Yes [ ]", "No [ ]"}
                          THEN Err("External funding question should be unanswered when funding is No", "")
                          ELSE <<>>))

Part10Forms(t) ==
    IF /\ SearchSameLine(t, FundingQ, YesNoTokens) = "Yes [x]"
       /\ SearchSameLine(t, ExternalQ, YesNoTokens) = "Yes [x]"
    THEN <<Form("Appendix K: Funding Source Form", "Required for external funding.", <<>>)>>
    ELSE <<>>

ValidatePart10(paras, forms) ==
    LET t == SectionText(paras, 10)
    IN  IF t = <<>>
        THEN [text |-> t, raises |-> FALSE,
              results |-> Results(Err("section not found", "Part 10")),
              required_forms |-> forms]
        ELSE [text |-> t, raises |-> FALSE, results |-> Results(Part10Funding(t)),
              required_forms |-> Appended(forms, Part10Forms(t))]

(***************************************************************************)
(* validate_file_name.  A file name and a surname are strings; the         *)
(* patterns read them piece by piece.  FileTokens gives the pieces of a    *)
(* file name: the leading characters one by one, then the longer pieces    *)
(* the patterns name, and SurnamePattern the characters of a surname as    *)
(* they stand in the pattern text it is interpolated into.                 *)
(***************************************************************************)
FileTokens(f) ==
    CASE f = "Smith_IREC Application_01012025.docx" ->
             <<"S", "m", "i", "t", "h", "_", "IREC Application", "_", "01012025", ".", "docx">>
      [] f = "Smith_Interview-Eng_01012025.pdf" ->
             <<"S", "m", "i", "t", "h", "_", "Interview", "-", "Eng", "_", "01012025", ".", "pdf">>
      [] f = "Jones_IREC Application_01012025.docx" ->
             <<"J", "o", "n", "e", "s", "_", "IREC Application", "_", "01012025", ".", "docx">>
      [] f = "Smith_CITI_01012023.pdf" ->
             <<"S", "m", "i", "t", "h", "_", "CITI", "_", "01012023", ".", "pdf">>
      [] f = "Smith_IREC Application_0101202.docx" ->
             <<"S", "m", "i", "t", "h", "_", "IREC Application", "_", "0101202", ".", "docx">>
      [] f = "Smith_Interview-Fr_01012025.pdf" ->
             <<"S", "m", "i", "t", "h", "_", "Interview", "-", "Fr", "_", "01012025", ".", "pdf">>
      [] f = "JrX_IREC Application_01012025.docx" ->
             <<"J", "r", "X", "_", "IREC Application", "_", "01012025", ".", "docx">>
      [] f = "Jr._IREC Application_01012025.docx" ->
             <<"J", "r", ".", "_", "IREC Application", "_", "01012025", ".", "docx">>
      [] f = "JrX_CITI_01012023.pdf" ->
             <<"J", "r", "X", "_", "CITI", "_", "01012023", ".", "pdf">>

SurnamePattern(s) ==
    CASE s = "Smith" -> <<"S", "m", "i", "t", "h">>
      [] s = "Jones" -> <<"J", "o", "n", "e", "s">>
      [] s = "Jr."   -> <<"J", "r", ".">>
      [] OTHER       -> <<s>>

\* The pieces that are one character.
Chars == {"S", "m", "i", "t", "h", "J", "o", "n", "e", "s", "r", "X", ".", "_", "-"}

\* The pieces "\d{2}\d{2}\d{4}" matches.
Digits8 == {"01012025", "01012023"}

\* file_name.rsplit('.', 1)[0]
NameWithoutExt(toks) ==
    LET dots == {i \in 1..Len(toks) : toks[i] = "."}
    IN  IF dots = {} THEN toks
        ELSE SubSeq(toks, 1, (CHOOSE i \in dots : \A m \in dots : m <= i) - 1)

\* "^{pi_surname}" at the start of the name: a character of the pattern
\* matches itself, but "." in the pattern matches any one character.
SurnameMatches(pat, name) ==
    /\ Len(name) >= Len(pat)
    /\ \A i \in 1..Len(pat) :
           IF pat[i] = "." THEN name[i] \in Chars ELSE name[i] = pat[i]

\* "_IREC Application_{date_pattern}$"
ApplicationShape(rest) ==
    /\ Len(rest) = 4 /\ rest[1] = "_" /\ rest[2] = "IREC Application"
    /\ rest[3] = "_" /\ rest[4] \in Digits8

\* "_(.+?-(Eng|Ru|Kz))_{date_pattern}$"
InstrumentShape(rest) ==
    /\ Len(rest) >= 6 /\ rest[1] = "_"
    /\ rest[Len(rest) - 3] = "-" /\ rest[Len(rest) - 2] \in {"Eng", "Ru", "Kz"}
    /\ rest[Len(rest) - 1] = "_" /\ rest[Len(rest)] \in Digits8

\* "_(CITI|TRREE)_{date_pattern}$"
TrainingShape(rest) ==
    /\ Len(rest) = 4 /\ rest[1] = "_" /\ rest[2] \in {"CITI", "TRREE"}
    /\ rest[3] = "_" /\ rest[4] \in Digits8

\* validate_file_name: (is_valid, message); kind stands for the message.
ValidateFileName(file_name, pi_surname) ==
    LET name_without_ext == NameWithoutExt(FileTokens(file_name))
        pat  == SurnamePattern(pi_surname)
        rest == SubSeq(name_without_ext, Len(pat) + 1, Len(name_without_ext))
        ok   == SurnameMatches(pat, name_without_ext)
    IN  IF ok /\ ApplicationShape(rest) THEN [valid |-> TRUE, kind |-> "application"]
        ELSE IF ok /\ InstrumentShape(rest) THEN [valid |-> TRUE, kind |-> "instrument"]
        ELSE IF ok /\ TrainingShape(rest) THEN [valid |-> TRUE, kind |-> "training"]
        ELSE [valid |-> FALSE, kind |-> "none"]

(***************************************************************************)
(* validate_part_11_and_checklist                                          *)
(***************************************************************************)
\* One pass of the loop over file_names.
Part11File(file_name, pi_surname) ==
    LET r == ValidateFileName(file_name, pi_surname)
    IN  IF ~r.valid THEN Err("File does not follow naming protocol", file_name)
        ELSE IF r.kind = "application" THEN Info("Application form naming is valid", "")
        ELSE IF r.kind = "instrument" THEN Info("File naming is valid", file_name)
        ELSE Info("Ethics training certificate naming is valid", file_name)

\* application_found
ApplicationFound(files, pi_surname) ==
    \E i \in 1..Len(files) : ValidateFileName(files[i], pi_surname).kind = "application"

\* The naming protocol block; no files stands for None and for [].
Part11Naming(files, pi_surname) ==
    IF pi_surname = ""
    THEN Err("PI surname is missing; cannot validate file naming protocol", "")
    ELSE IF files = <<>>
    THEN Warn("No file names provided for naming protocol validation", "")
    ELSE ConcatAll([i \in 1..Len(files) |-> Part11File(files[i], pi_surname)])
         \o (IF ApplicationFound(files, pi_surname) THEN <<>>
             ELSE Err("Main application file not found in provided file names", ""))

ChecklistHeading == "CHECKLIST"
ChecklistIntro   == "Please indicate which forms"

\* CHECKLIST\s*Please indicate which forms.*?\n: the index after the match
\* (checklist_start.end(), from 1), or 0.
ChecklistStart(t) ==
    LET hits == {i \in 1..Len(t) :
                    /\ t[i] = ChecklistHeading /\ SkipSpace(t, i) # 0
                    /\ t[SkipSpace(t, i)] = ChecklistIntro
                    /\ FirstIn(t, SkipSpace(t, i), {NL}) # 0}
    IN  IF hits = {} THEN 0 ELSE FirstIn(t, SkipSpace(t, Least(hits)), {NL}) + 1

\* item.strip() as a dictionary key: the label of a line is one atom; a
\* label of several atoms is no form's name.
Label(atoms) == IF Len(atoms) = 1 THEN atoms[1] ELSE "<several atoms>"

\* ([^\n]+?)\s*(box)\s*(?:\n|$) from s: the lazy label ends at the first e
\* after which, line breaks skipped, a box stands at the end of its line.
ItemEnd(t, s) ==
    LET es == {e \in s..Len(t) :
                  /\ \A m \in s..e : t[m] # NL
                  /\ SkipSpace(t, e) # 0 /\ t[SkipSpace(t, e)] \in BoxTokens
                  /\ At(t, SkipSpace(t, e) + 1) \in {NL, "<end>"}}
    IN  IF es = {} THEN 0 ELSE Least(es)

\* re.findall from index p: checklist_items
RECURSIVE ChecklistItems(_, _)
ChecklistItems(t, p) ==
    LET ss == {s \in p..Len(t) : t[s] # NL /\ ItemEnd(t, s) # 0}
        s  == Least(ss)
        g  == SkipSpace(t, ItemEnd(t, s))
        nx == IF SkipSpace(t, g) = 0 THEN Len(t) + 1 ELSE SkipSpace(t, g)
    IN  IF ss = {} THEN <<>>
        ELSE <<[label |-> Label(SubSeq(t, s, ItemEnd(t, s))), status |-> t[g]]>>
             \o ChecklistItems(t, nx)

\* checked_forms: the keys in the order a dict keeps them (first insertion),
\* and for a key the value of its last item.
RECURSIVE CheckedLabels(_)
CheckedLabels(items) ==
    IF items = <<>> THEN <<>>
    ELSE LET init == SubSeq(items, 1, Len(items) - 1)
             last == items[Len(items)].label
         IN  IF \E i \in 1..Len(init) : init[i].label = last
             THEN CheckedLabels(init) ELSE CheckedLabels(init) \o <<last>>

CheckedStatus(items, label) ==
    LET at == {i \in 1..Len(items) : items[i].label = label}
    IN  items[CHOOSE i \in at : \A m \in at : m <= i].status

\* One pass of the loop over required_forms.
ReconcileRequired(items, form_name) ==
    IF ~\E i \in 1..Len(items) : items[i].label = form_name
    THEN Err("Required form not listed in checklist", form_name)
    ELSE IF CheckedStatus(items, form_name) # "[x]"
    THEN Err("Required form is listed but not checked", form_name)
    ELSE Info("Required form is correctly checked", form_name)

\* A pass that does not look at the status of the label.
ReconcileCheckedAnyStatus(items, forms, label) ==
    IF ~\E i \in 1..Len(forms) : forms[i].form = label
    THEN Warn("Form is checked but not required", label)
    ELSE <<>>

\* One pass of the loop over checked_forms.items().
ReconcileChecked(items, forms, label) ==
    IF (~\E i \in 1..Len(forms) : forms[i].form = label) /\ CheckedStatus(items, label) = "[x]"
    THEN Warn("Form is checked but not required", label)
    ELSE <<>>

\* The loops with the first loop over the distinct names of the list.
ReconcileDistinct(items, forms) ==
    ConcatAll([i \in 1..Len(forms) |->
                  IF \E j \in 1..(i - 1) : forms[j].form = forms[i].form THEN <<>>
                  ELSE ReconcileRequired(items, forms[i].form)])
    \o ConcatAll([i \in 1..Len(CheckedLabels(items)) |->
                     ReconcileChecked(items, forms, CheckedLabels(items)[i])])

\* The two reconciliation loops.
Reconcile(items, forms) ==
    ConcatAll([i \in 1..Len(forms) |-> ReconcileRequired(items, forms[i].form)])
    \o ConcatAll([i \in 1..Len(CheckedLabels(items)) |->
                     ReconcileChecked(items, forms, CheckedLabels(items)[i])])

\* The checklist block, with its two early returns.
Part11Checklist(t, forms) ==
    LET checklist_start == ChecklistStart(t)
        checklist_items == ChecklistItems(t, checklist_start)
    IN  IF checklist_start = 0 THEN Err("Checklist section not found in Part 11", "")
        ELSE IF checklist_items = <<>> THEN Err("No checklist items found in Part 11", "")
        ELSE Reconcile(checklist_items, forms)

ValidatePart11(paras, forms, pi_surname, files) ==
    LET t == SectionText(paras, 11)
    IN  IF t = <<>>
        THEN [text |-> t, raises |-> FALSE,
              results |-> Results(Err("section not found", "Part 11")),
              required_forms |-> forms]
        ELSE [text |-> t, raises |-> FALSE,
              results |-> Results(Part11Naming(files, pi_surname) \o Part11Checklist(t, forms)),
              required_forms |-> forms]

(***************************************************************************)
(* validate_irec_application, as a function of its inputs: the FindingSet  *)
(* of every part in the order of the calls, whether an exception left      *)
(* validate_part_8, and the final required_forms.                          *)
(***************************************************************************)
PartKeys ==
    <<"Part 0", "Part 1", "Part 2", "Part 3", "Part 4", "Part 5", "Part 6", "Part 7",
      "Part 8", "Part 10", "Part 11">>

RunParts(paras, files, today) ==
    LET r0  == ValidatePart0(paras)
        r1  == ValidatePart1(paras, r0.exemption_claimed)
        r2  == ValidatePart2(paras, today)
        r3  == ValidatePart3(paras)
        r4  == ValidatePart4(paras, r3.required_forms)
        r5  == ValidatePart5(paras, r4.required_forms)
        r6  == ValidatePart6(paras, r5.required_forms)
        r7  == ValidatePart7(paras, r6.required_forms)
        r8  == ValidatePart8(paras, r7.required_forms, r3.methodology_text,
                             r5.involvement_text, r6.maintenance_text, r6.sharing_text,
                             r6.storage_text)
        r10 == ValidatePart10(paras, r8.required_forms)
        r11 == ValidatePart11(paras, r10.required_forms, r2.pi_surname, files)
    IN  [raised |-> r8.raises,
         parts  |-> <<r0.results, r1.results, r2.results, r3.results, r4.results,
                      r5.results, r6.results, r7.results, r8.results, r10.results,
                      r11.results>>,
         required_forms |-> r11.required_forms]

\* The summary loop: the number of findings of each severity over all parts.
RECURSIVE Summary(_)
Summary(ps) ==
    IF ps = <<>> THEN [errors |-> 0, warnings |-> 0, info |-> 0]
    ELSE LET rest == Summary(Tail(ps))
         IN  [errors   |-> Len(Head(ps).results.errors) + rest.errors,
              warnings |-> Len(Head(ps).results.warnings) + rest.warnings,
              info     |-> Len(Head(ps).results.info) + rest.info]

(***************************************************************************)
(* The orchestrator, one action for each call it makes.                    *)
(***************************************************************************)
NoFacts ==
    [exemption_claimed |-> FALSE, pi_surname |-> "", methodology_text |-> <<>>,
     involvement_text |-> <<>>, maintenance_text |-> <<>>, sharing_text |-> <<>>,
     storage_text |-> <<>>]

NoSummary == [errors |-> 0, warnings |-> 0, info |-> 0]

\* No second run beside the one of the variables above.
NoRuns == [heap |-> <<>>, run |-> <<>>, mixed |-> FALSE]

\* results["parts"][key] = part_results
Filed(key, r) == Append(parts, [part |-> key, results |-> r.results])

StepPart0 ==
    /\ pc = "Part 0"
    /\ \E r \in {ValidatePart0(doc)} :
           /\ parts' = Filed("Part 0", r)
           /\ facts' = [facts EXCEPT !.exemption_claimed = r.exemption_claimed]
           /\ section_text' = r.text
    /\ pc' = "Part 1"
    /\ UNCHANGED <<runs, doc, file_names, now, required_forms, raised, summary>>

StepPart1 ==
    /\ pc = "Part 1"
    /\ \E r \in {ValidatePart1(doc, facts.exemption_claimed)} :
           /\ parts' = Filed("Part 1", r)
           /\ section_text' = r.text
    /\ pc' = "Part 2"
    /\ UNCHANGED <<runs, doc, file_names, now, required_forms, facts, raised, summary>>

StepPart2 ==
    /\ pc = "Part 2"
    /\ \E r \in {ValidatePart2(doc, now)} :
           /\ parts' = Filed("Part 2", r)
           /\ facts' = [facts EXCEPT !.pi_surname = r.pi_surname]
           /\ section_text' = r.text
    /\ pc' = "Part 3"
    /\ UNCHANGED <<runs, doc, file_names, now, required_forms, raised, summary>>

StepPart3 ==
    /\ pc = "Part 3"
    /\ \E r \in {ValidatePart3(doc)} :
           /\ parts' = Filed("Part 3", r)
           /\ required_forms' = r.required_forms
           /\ facts' = [facts EXCEPT !.methodology_text = r.methodology_text]
           /\ section_text' = r.text
    /\ pc' = "Part 4"
    /\ UNCHANGED <<runs, doc, file_names, now, raised, summary>>

StepPart4 ==
    /\ pc = "Part 4"
    /\ \E r \in {ValidatePart4(doc, required_forms)} :
           /\ parts' = Filed("Part 4", r)
           /\ required_forms' = r.required_forms
           /\ section_text' = r.text
    /\ pc' = "Part 5"
    /\ UNCHANGED <<runs, doc, file_names, now, facts, raised, summary>>

StepPart5 ==
    /\ pc = "Part 5"
    /\ \E r \in {ValidatePart5(doc, required_forms)} :
           /\ parts' = Filed("Part 5", r)
           /\ required_forms' = r.required_forms
           /\ facts' = [facts EXCEPT !.involvement_text = r.involvement_text]
           /\ section_text' = r.text
    /\ pc' = "Part 6"
    /\ UNCHANGED <<runs, doc, file_names, now, raised, summary>>

StepPart6 ==
    /\ pc = "Part 6"
    /\ \E r \in {ValidatePart6(doc, required_forms)} :
           /\ parts' = Filed("Part 6", r)
           /\ required_forms' = r.required_forms
           /\ facts' = [facts EXCEPT !.maintenance_text = r.maintenance_text,
                                     !.sharing_text = r.sharing_text,
                                     !.storage_text = r.storage_text]
           /\ section_text' = r.text
    /\ pc' = "Part 7"
    /\ UNCHANGED <<runs, doc, file_names, now, raised, summary>>

StepPart7 ==
    /\ pc = "Part 7"
    /\ \E r \in {ValidatePart7(doc, required_forms)} :
           /\ parts' = Filed("Part 7", r)
           /\ required_forms' = r.required_forms
           /\ section_text' = r.text
    /\ pc' = "Part 8"
    /\ UNCHANGED <<runs, doc, file_names, now, facts, raised, summary>>

\* When validate_part_8 raises, the exception leaves validate_irec_application
\* too: nothing is filed and no report is returned.
StepPart8 ==
    /\ pc = "Part 8"
    /\ \E r \in {ValidatePart8(doc, required_forms, facts.methodology_text,
                                  facts.involvement_text, facts.maintenance_text,
                                  facts.sharing_text, facts.storage_text)} :
           /\ section_text' = r.text
           /\ IF r.raises
              THEN /\ raised' = TRUE
                   /\ pc' = "raised"
                   /\ UNCHANGED <<parts, required_forms>>
              ELSE /\ parts' = Filed("Part 8", r)
                   /\ required_forms' = r.required_forms
                   /\ pc' = "Part 10"
                   /\ UNCHANGED raised
    /\ UNCHANGED <<runs, doc, file_names, now, facts, summary>>

StepPart10 ==
    /\ pc = "Part 10"
    /\ \E r \in {ValidatePart10(doc, required_forms)} :
           /\ parts' = Filed("Part 10", r)
           /\ required_forms' = r.required_forms
           /\ section_text' = r.text
    /\ pc' = "Part 11"
    /\ UNCHANGED <<runs, doc, file_names, now, facts, raised, summary>>

StepPart11 ==
    /\ pc = "Part 11"
    /\ \E r \in {ValidatePart11(doc, required_forms, facts.pi_surname, file_names)} :
           /\ parts' = Filed("Part 11", r)
           /\ required_forms' = r.required_forms
           /\ section_text' = r.text
    /\ pc' = "summary"
    /\ UNCHANGED <<runs, doc, file_names, now, facts, raised, summary>>

\* The summary loop and the return.
Summarize ==
    /\ pc = "summary"
    /\ summary' = Summary(parts)
    /\ pc' = "done"
    /\ UNCHANGED <<runs, doc, file_names, now, parts, required_forms, facts, section_text, raised>>

Next ==
    \/ StepPart0 \/ StepPart1 \/ StepPart2 \/ StepPart3 \/ StepPart4 \/ StepPart5
    \/ StepPart6 \/ StepPart7 \/ StepPart8 \/ StepPart10 \/ StepPart11 \/ Summarize

(***************************************************************************)
(* The paragraph streams the validator is run on: the application form,    *)
(* filled in.  Each body is the paragraphs of one section after its        *)
(* heading; an answer given as "none" leaves the answer out.               *)
(***************************************************************************)
Answers == YesNoTokens \cup {"none"}

\* A paragraph with an answer after the question text, on the same line.
Asked(question, answer) ==
    IF answer = "none" THEN <<question>> ELSE <<question, answer>>

\* The paragraph of an answer on the line after the question, if any.
Answered(answer) == IF answer = "none" THEN <<>> ELSE <<<<answer>>>>

\* The line of an exemption category with its box, if the line is there.
Category(name, box) == IF box = "absent" THEN <<>> ELSE << <<CategoryAtom(name, box)>> >>

\* A question on a line of its own and its answer on the next line;
\* "absent": the question is not there, "none": it has no answer.
Question(text, answer) ==
    IF answer = "absent" THEN <<>> ELSE << <<text>> >> \o Answered(answer)

\* Part 0 with the answers to its six questions.
Part0Answers(answers, f1, f2, f3, justification) ==
    ConcatAll([i \in 1..Len(Part0Questions) |-> Question(Part0Questions[i].text, answers[i])])
    \o Category("f1", f1) \o Category("f2", f2) \o Category("f3", f3)
    \o << <<JustificationAnchor>> \o justification >>

Part0Fields(q1, q2, exemption, f1, f2, f3, justification) ==
    Part0Answers(<<q1, q2, "No [x]", "Yes [x]", "Yes [x]", exemption>>, f1, f2, f3, justification)

Part0Body(q1, q2, exemption, justification) ==
    Part0Fields(q1, q2, exemption, "[ ]", "[ ]", "[ ]", justification)

Part1Body(date, expedited, full_board, exempt) ==
    << <<"Principal Investigator:", "John Smith">>,
       <<"Application Date:">> \o date,
       <<"Nazarbayev University Unit (School):", "GSE">>,
       <<"Primary Research Discipline:", "Education">>,
       <<"Application Title:", "title">>,
       Asked("An Expedited Review", expedited),
       Asked("A Full Board Review", full_board),
       Asked("An Exemption", exempt) >>

Part2Team(pi_name, citi_date, ra_date, boxes) ==
    << <<PIRole>>,
       <<"Name:">> \o pi_name,
       <<"NU ID:", "2021">>, <<"NU School:", "GSE">>, <<"Department:", "Education">>,
       <<"Position:", "student">>, <<"E-mail address:", "pi@nu.edu.kz">>,
       <<"Daytime Phone:", "7172">>, <<"Mobile phone:", "7701">>,
       <<CitiQuestion>>, <<"Yes [x]">>,
       <<"CITI Training completion date:">> \o citi_date,
       <<RARole>>,
       <<"Name:", "Jane", "Jones">>,
       <<"NU ID:", "1999">>, <<"NU School:", "GSE">>, <<"Department:", "Education">>,
       <<"Position:", "professor">>, <<"E-mail address:", "ra@nu.edu.kz">>,
       <<CitiQuestion>>, <<"Yes [x]">>,
       <<"CITI or alternative training completion date:">> \o ra_date,
       <<"For students:">>,
       <<"Undergraduate", boxes[1], "Masters", boxes[2], "PhD", boxes[3],
         "Other", boxes[4]>>,
       <<"Course:", "EDUC 700">> >>

Part2Body(pi_name, citi_date, boxes) ==
    Part2Team(pi_name, citi_date, <<"01/15/2025">>, boxes)

Part3Body(methodology, sites) ==
    << <<PurposeQ>>, <<"<260 words>", "attached">>,
       <<QuestionsQ>>, <<"words">>,
       <<MethodologyQ>>, methodology,
       <<AnalysisQ>>, <<"<200 words>">>,
       <<SitesQ>>, sites >>

\* The paragraph of a narrative field, if it has one.
Filled(value) == IF value = <<>> THEN <<>> ELSE <<value>>

\* Part 4 with the answers to the ten questions on special populations
\* and the justification of the choice of the group.
Part4Answers(answers, justification, recruited, contact, method, exclusions) ==
    [i \in 1..Len(SpecialPopulations) |-> Asked(SpecialPopulations[i].anchor, answers[i])]
    \o << <<OtherSpecialQ>>,
          <<SampleSizeQ, "30">> >>
    \o [i \in 1..Len(ParticipantFields) |-> <<ParticipantFields[i].label, "words">>]
    \o << <<WhyGroupQ>> >> \o Filled(justification)
    \o << <<RelationshipQ>>, <<"words">>,
          <<PowerQ>>, <<"words">>,
          Asked(RecruitedQ, recruited),
          <<ContactQ>> >> \o Filled(contact)
    \o << <<RecruitMethodQ>> >> \o Filled(method)
    \o << <<ExclusionsQ>>, exclusions,
          <<WithdrawalQ>>, <<"words">> >>

\* The ten answers with the first, the eighth and the tenth given.
PopulationAnswers(minors, drug_use, alcohol) ==
    [i \in 1..Len(SpecialPopulations) |->
        CASE i = 1 -> minors [] i = 8 -> drug_use [] i = 10 -> alcohol [] OTHER -> "No [x]"]

Part4Fields(minors, drug_use, recruited, contact, method, exclusions) ==
    Part4Answers(PopulationAnswers(minors, drug_use, "No [x]"), <<"words">>, recruited, contact, method, exclusions)

Part4Body(minors, drug_use, recruited) ==
    Part4Fields(minors, drug_use, recruited, <<"words">>, <<"words">>, <<"N/A [x]">>)

\* The paragraphs of Part 5, the paragraphs of the dates given.
Part5Fields(dates, involvement, discomfort, deception) ==
    << <<DatesQ>> >> \o dates
    \o << <<InvolvedQ>>, involvement,
          <<AdministerQ>>, <<"words">>,
          Asked(DiscomfortQ, discomfort),
          <<ExplainQ>>,
          <<DeceptionQ>> >> \o Answered(deception)
    \o << <<DeceptionWhyQ>> >>

Part5Body(involvement, discomfort, deception) ==
    Part5Fields(<< <<"01/2025", "to", "12/2025">> >>, involvement, discomfort, deception)

Part6Fields(survey, name_privacy, stored, maintenance, shared, details) ==
    << Asked(ESurveyQ, survey),
       Asked(NamePrivacyQ, name_privacy),
       <<ReadReceiptQ, "Yes [x]">>,
       <<ExplainNoQ>>,
       <<SurveyQuestionsQ>>,
       <<DropdownQ, "Yes [x]">>,
       <<TransmitQ>>, <<"words">>,
       <<UrlQ>>, <<"url">>,
       <<StoredQ>>, stored,
       <<MaintainedQ>>, maintenance,
       Asked(SharedQ, shared),
       <<SharingHowQ>>, details,
       <<SecurityQ>>, <<"words">> >>

Part6Body(survey, name_privacy, maintenance, shared) ==
    Part6Fields(survey, name_privacy, <<"words">>, maintenance, shared, <<"words">>)

Part7Fields(minimal_risk, benefit, explanation, incentives) ==
    << Asked(MinimalRiskQ, minimal_risk),
       <<ExplainWhyQ>>, <<"words">>,
       <<AllRisksQ>>, <<"words">>,
       <<GreaterQ>>,
       <<EssentialQ>>, <<"words">>,
       <<MinimizeQ>>, <<"words">>,
       <<ProtectionsQ>>, <<"words">>,
       <<AdverseQ>>, <<"words">>,
       <<BenefitQ>> >> \o Answered(benefit)
    \o << <<PleaseExplainQ>> >> \o Filled(explanation)
    \o << <<SocietyQ>>, <<"words">>,
          <<IncentivesQ>> >> \o Answered(incentives)
    \o << <<DescribeQ>> >>

Part7Body(minimal_risk, benefit, incentives) ==
    Part7Fields(minimal_risk, benefit, <<"words">>, incentives)

\* A question given as "absent" is left out with its answer.
Part8Question(question, answer) ==
    IF answer = "absent" THEN <<>> ELSE << <<question>> >> \o Answered(answer)

Part8Fields(recordings, consent, identifiable, anonymity, collection, storage) ==
    Part8Question(RecordingsQ, recordings)
    \o Part8Question(ConsentQ, consent)
    \o Part8Question(IdentifiableQ, identifiable)
    \o << <<ExplainQ>>, <<"words">>,
          <<AnonymityQ>> >> \o Filled(anonymity)
    \o << <<ConfidentialityQ>>,
          <<CollectionQ>> >> \o Filled(collection)
    \o << <<AnalyzedQ>>, <<"words">>,
          <<PublicationQ>>, <<"words">>,
          <<StorageQ>> >> \o Filled(storage)

Part8Body(recordings, consent, identifiable) ==
    Part8Fields(recordings, consent, identifiable, <<"N/A [x]">>, <<"words">>, <<"words">>)

Part10Body(funding, external) ==
    << Asked(FundingQ, funding),
       <<SourceQ>>,
       Asked(ExternalQ, external) >>

\* The checklist: a line is a label, a box, or a label and its box.
Part11Body(lines) ==
    << <<"words">>, <<ChecklistHeading>>, <<ChecklistIntro>> >> \o lines

\* A checklist that lists and checks the forms the application without a
\* fault requires.
CheckedList(forms) == [i \in 1..Len(forms) |-> <<forms[i], "[x]">>]

BaseChecklist ==
    CheckedList(<<"Appendix A: IREC Application Form", "CITI Training Certificates",
                  AppendixB, AppendixD, InterviewGuides, RecruitmentMaterials,
                  AppendixC, AppendixL>>)

\* The body of each section in an application filled in without a fault.
BaseBody(key) ==
    CASE key = "Part 0"  -> Part0Body("Yes [x]", "No [x]", "No [x]", <<>>)
      [] key = "Part 1"  -> Part1Body(<<"01/15/2025">>, "Yes [x]", "No [x]", "No [x]")
      [] key = "Part 2"  -> Part2Body(<<"John", "Smith">>, <<"01/15/2025">>,
                                      <<"[ ]", "[x]", "[ ]", "[ ]">>)
      [] key = "Part 3"  -> Part3Body(<<"interview", "<260 words>">>, <<"Kazakhstan">>)
      [] key = "Part 4"  -> Part4Body("No [x]", "No [x]", "No [x]")
      [] key = "Part 5"  -> Part5Body(<<"words">>, "No [x]", "No [x]")
      [] key = "Part 6"  -> Part6Body("Yes [x]", "Yes [x]", <<"Identifiable", "words">>,
                                      "No [x]")
      [] key = "Part 7"  -> Part7Body("Yes [x]", "No [x]", "No [x]")
      [] key = "Part 8"  -> Part8Body("No [x]", "No [x]", "Yes [x]")
      [] key = "Part 10" -> Part10Body("No [x]", "No [ ]")
      [] key = "Part 11" -> Part11Body(BaseChecklist)

HeaderOf(key) == Header(PartIds[CHOOSE i \in 1..Len(PartKeys) : PartKeys[i] = key])

\* The stream of a whole application: every section in document order,
\* with `body` in the place of the section `key`; the heading of the
\* section `missing` is left out ("none": every heading is there).
Application(key, body, missing) ==
    ConcatAll([i \in 1..Len(PartKeys) |->
                  (IF PartKeys[i] = missing THEN <<>> ELSE << <<HeaderOf(PartKeys[i])>> >>)
                  \o (IF PartKeys[i] = key THEN body ELSE BaseBody(PartKeys[i]))])

(***************************************************************************)
(* The bounds of the streams and lists drawn.                              *)
(***************************************************************************)
MaxParas == 3

MaxLines == 2

MaxRequired == 2

MaxFiles == 2

\* The sequences over S of length at most n.
SeqsUpTo(S, n) == UNION {[1..m -> S] : m \in 0..n}

\* datetime.now(), as a day number: 2025-04-22.
Today == 20200

\* The time of day of the runs: noon.
Noon == 12 * 3600

Part0Bodies ==
    {Part0Body(q1, q2, ex, j) :
        q1 \in Answers, q2 \in {"No [x]", "Yes [ ]"}, ex \in Answers,
        j \in {<<>>, <<"words">>}}

Part1Bodies ==
    {Part1Body(<<"01/15/2025">>, e, f, x) : e \in Answers, f \in Answers, x \in Answers}

Part2Bodies ==
    {Part2Body(name, date, boxes) :
        name \in {<<"John", "Smith">>, <<"John", "Smith", "Jr.">>, <<>>},
        date \in {<<"01/15/2025">>, <<"06/30/2021">>, <<"soon">>},
        boxes \in {<<"[ ]", "[x]", "[ ]", "[ ]">>, <<"[ ]", "[ ]", "[ ]", "[ ]">>,
                   <<"[x]", "[x]", "[ ]", "[ ]">>}}

Methodologies ==
    {<<"interview", "<260 words>">>, <<"survey", "<260 words>">>,
     <<"internet survey", "<100 words>">>, <<"interview", "survey", "<260 words>">>,
     <<"mixed method", "interview", "survey", "<260 words>">>, <<"<260 words>">>,
     <<"Video", "Interview", "<260 words>">>, <<"human genetics", "collaborator">>, <<>>}

Sites ==
    {<<"Kazakhstan">>, <<"schools", "Kazakhstan">>, <<"Nazarbayev University">>,
     <<"Nazarbayev University", "Kazakhstan">>, <<"schools">>, <<"words", "attached">>,
     <<>>}

Part3Bodies == {Part3Body(m, st) : m \in Methodologies, st \in Sites}

Part4Bodies ==
    {Part4Body(minors, drug_use, recruited) :
        minors \in Answers, drug_use \in {"No [x]", "Yes [x]"}, recruited \in Answers}

Part5Bodies ==
    {Part5Body(inv, discomfort, deception) :
        inv \in {<<"words">>, <<"debriefing">>, <<"Video", "words">>, <<>>},
        discomfort \in Answers, deception \in {"No [x]", "Yes [x]", "Yes [ ]"}}

Part6Bodies ==
    {Part6Body(survey, name_privacy, maintenance, shared) :
        survey \in Answers, name_privacy \in Answers,
        maintenance \in {<<"words">>, <<"Identifiable", "words">>},
        shared \in {"No [x]", "Yes [x]"}}

Part7Bodies ==
    {Part7Body(risk, benefit, incentives) :
        risk \in Answers, benefit \in {"No [x]", "Yes [x]", "Yes [ ]"},
        incentives \in {"No [x]", "Yes [x]", "none"}}

Part8Bodies ==
    {Part8Body(recordings, consent, identifiable) :
        recordings \in Answers \cup {"absent"}, consent \in {"No [x]", "Yes [x]", "Yes [ ]"},
        identifiable \in Answers \cup {"absent"}}

Part10Bodies == {Part10Body(funding, external) : funding \in Answers, external \in Answers}

Part11Bodies ==
    {Part11Body(lines) :
        lines \in {BaseChecklist, <<>>, <<<<AppendixB, "[ ]">>>>,
                   CheckedList(<<"Appendix A: IREC Application Form", Surveys>>)}}

Bodies(key) ==
    CASE key = "Part 0"  -> Part0Bodies
      [] key = "Part 1"  -> Part1Bodies
      [] key = "Part 2"  -> Part2Bodies
      [] key = "Part 3"  -> Part3Bodies
      [] key = "Part 4"  -> Part4Bodies
      [] key = "Part 5"  -> Part5Bodies
      [] key = "Part 6"  -> Part6Bodies
      [] key = "Part 7"  -> Part7Bodies
      [] key = "Part 8"  -> Part8Bodies
      [] key = "Part 10" -> Part10Bodies
      [] key = "Part 11" -> Part11Bodies

\* The bodies of Part 0 in the streams that lack one heading.
ExemptionBodies ==
    {Part0Body("Yes [x]", "No [x]", ex, j) : ex \in {"Yes [x]", "No [x]"},
                                               j \in {<<>>, <<"words">>}}

\* The applications: one section varied at a time, every heading there; and
\* the applications that lack the heading of one section.
Applications ==
    UNION {{Application(PartKeys[i], b, "none") : b \in Bodies(PartKeys[i])} :
              i \in 1..Len(PartKeys)}
    \cup {Application("Part 0", b, PartKeys[i]) : b \in ExemptionBodies, i \in 1..Len(PartKeys)}

SmithFiles ==
    <<"Smith_IREC Application_01012025.docx", "Smith_Interview-Eng_01012025.pdf",
      "Smith_CITI_01012023.pdf">>

\* The state of validate_irec_application before the call at `key`.
Start(key) ==
    /\ now = Clock(Today, Noon)
    /\ pc = key
    /\ parts = <<>>
    /\ section_text = <<>>
    /\ raised = FALSE
    /\ summary = NoSummary
    /\ runs = NoRuns

Init ==
    /\ doc \in Applications
    /\ file_names = SmithFiles
    /\ required_forms = SeedForms
    /\ facts = NoFacts
    /\ Start("Part 0")

Spec == Init /\ [][Next]_vars

(***************************************************************************)
(* The same calls on short streams: every stream of at most MaxParas       *)
(* paragraphs that are headings (one of them two headings on a line) or    *)
(* plain words.                                                            *)
(***************************************************************************)
SlicerParas ==
    {<<Header(0)>>, <<Header(1)>>, <<Header(0), Header(1)>>, <<"words">>,
     <<Header(10)>>, <<Header(11)>>}

InitSlicer ==
    /\ doc \in SeqsUpTo(SlicerParas, MaxParas)
    /\ file_names = <<>>
    /\ required_forms = SeedForms
    /\ facts = NoFacts
    /\ Start("Part 0")

SpecSlicer == InitSlicer /\ [][Next]_vars

(***************************************************************************)
(* validate_part_11_and_checklist on its own: the call with every list of  *)
(* at most MaxRequired required forms and every checklist of at most       *)
(* MaxLines lines, and with every list of at most MaxFiles file names and  *)
(* every surname.                                                          *)
(***************************************************************************)
FormNames == {"X", "Y", "Z"}

RequiredLists == SeqsUpTo({Form(name, "Required.", <<>>) : name \in FormNames}, MaxRequired)

\* A line of the checklist: a label and its box, a label alone, a box alone.
ChecklistLines ==
    {<<"X", "[x]">>, <<"X", "[ ]">>, <<"Y", "[x]">>, <<"Z", "[x]">>, <<"Z">>, <<"[x]">>}

FileNames ==
    {"Smith_IREC Application_01012025.docx", "Smith_Interview-Eng_01012025.pdf",
     "Jones_IREC Application_01012025.docx", "Smith_CITI_01012023.pdf",
     "Smith_IREC Application_0101202.docx", "Smith_Interview-Fr_01012025.pdf",
     "JrX_IREC Application_01012025.docx", "Jr._IREC Application_01012025.docx",
     "JrX_CITI_01012023.pdf"}

Surnames == {"Smith", "Jr.", ""}

Part11Doc(lines) == << <<Header(11)>> >> \o Part11Body(lines)

InitPart11 ==
    /\ \/ /\ doc \in {Part11Doc(lines) : lines \in SeqsUpTo(ChecklistLines, MaxLines)}
          /\ required_forms \in RequiredLists
          /\ file_names = SmithFiles
          /\ facts = [NoFacts EXCEPT !.pi_surname = "Smith"]
       \/ /\ doc = Part11Doc(<<<<"X", "[x]">>>>)
          /\ required_forms = <<Form("X", "Required.", <<>>)>>
          /\ file_names \in SeqsUpTo(FileNames, MaxFiles)
          /\ \E s \in Surnames : facts = [NoFacts EXCEPT !.pi_surname = s]
    /\ Start("Part 11")

NextPart11 == StepPart11 \/ Summarize

SpecPart11 == InitPart11 /\ [][NextPart11]_vars

(***************************************************************************)
(* validate_part_2 on its own, at several instants: the training dates of  *)
(* the Principal Investigator and of the Research Advisor are drawn from   *)
(* DatesMDY, the clock from the two days below, at midnight and at noon.   *)
(***************************************************************************)
\* The days of the clock: 2025-03-01 (the three years before it hold
\* 2024-02-29) and 2023-06-15 (the three years before it hold no leap day).
Instants ==
    {[year |-> 2025, month |-> 3, day |-> 1], [year |-> 2023, month |-> 6, day |-> 15]}

InitDates ==
    /\ \E pi_date, ra_date \in DatesMDY :
           doc = Application("Part 2",
                             Part2Team(<<"John", "Smith">>, <<pi_date>>, <<ra_date>>,
                                       <<"[ ]", "[x]", "[ ]", "[ ]">>),
                             "none")
    /\ \E i \in Instants, second \in {0, Noon} :
           now = Clock(DayNumber(i.year, i.month, i.day), second)
    /\ file_names = SmithFiles
    /\ required_forms = SeedForms
    /\ facts = NoFacts
    /\ pc = "Part 2"
    /\ parts = <<>>
    /\ section_text = <<>>
    /\ raised = FALSE
    /\ summary = NoSummary
    /\ runs = NoRuns

NextDates == StepPart2

SpecDates == InitDates /\ [][NextDates]_vars

(***************************************************************************)
(* validate_part_0 alone, on the exemption question, the justification and *)
(* the three exemption categories.                                         *)
(***************************************************************************)
Boxes == {"[x]", "[ ]", "absent"}

Exempted(exemption, f1, f2, f3, justification) ==
    Application("Part 0", Part0Fields("Yes [x]", "No [x]", exemption, f1, f2, f3,
                                      justification), "none")

InitExemption ==
    /\ \E exemption \in Answers, f1, f2, f3 \in Boxes :
          \E justification \in {<<>>, <<"words">>} :
              doc = Exempted(exemption, f1, f2, f3, justification)
    /\ file_names = SmithFiles
    /\ required_forms = SeedForms
    /\ facts = NoFacts
    /\ Start("Part 0")

NextExemption == StepPart0

SpecExemption == InitExemption /\ [][NextExemption]_vars

(***************************************************************************)
(* validate_part_0 alone, on the answers to its six questions.             *)
(***************************************************************************)
Checked == {"Yes [x]", "No [x]"}

InitNeeded ==
    /\ \E q1, exemption \in Answers \cup {"absent"}, q2 \in Checked \cup {"Yes [ ]", "none"} :
          \E q3, q4, q5 \in Checked \cup {"none"} :
              doc = Application("Part 0",
                                Part0Answers(<<q1, q2, q3, q4, q5, exemption>>,
                                             "[ ]", "[ ]", "[ ]", <<"words">>), "none")
    /\ file_names = SmithFiles
    /\ required_forms = SeedForms
    /\ facts = NoFacts
    /\ Start("Part 0")

NextNeeded == StepPart0

SpecNeeded == InitNeeded /\ [][NextNeeded]_vars

(***************************************************************************)
(* validate_part_4 alone, on the recruitment question and the two          *)
(* narratives that go with it.                                             *)
(***************************************************************************)
\* What a narrative field holds: nothing, a marked or an empty N/A box, a
\* description, a marked N/A box with a description after it.
Narratives == {<<>>, <<"N/A [x]">>, <<"N/A [ ]">>, <<"words">>, <<"N/A [x]", "words">>}

Recruiting(recruited, contact, method, exclusions) ==
    Application("Part 4", Part4Fields("No [x]", "No [x]", recruited, contact, method,
                                      exclusions), "none")

InitRecruitment ==
    /\ \E recruited \in Answers, contact, method \in Narratives :
          \E exclusions \in {<<"N/A [x]">>, <<"words">>} :
              doc = Recruiting(recruited, contact, method, exclusions)
    /\ file_names = SmithFiles
    /\ now = Clock(Today, Noon)
    /\ required_forms = SeedForms
    /\ facts = NoFacts
    /\ pc = "Part 4"
    /\ parts = <<>>
    /\ section_text = <<>>
    /\ raised = FALSE
    /\ summary = NoSummary
    /\ runs = NoRuns

NextRecruitment == StepPart4

SpecRecruitment == InitRecruitment /\ [][NextRecruitment]_vars

(***************************************************************************)
(* validate_part_8 alone, on the identifiability question, the anonymity   *)
(* narrative and the narratives of the phases.                             *)
(***************************************************************************)
Identified(identifiable, anonymity, collection, storage) ==
    Application("Part 8", Part8Fields("No [x]", "No [x]", identifiable, anonymity,
                                      collection, storage), "none")

Phases == {<<>>, <<"words">>}

InitAnonymity ==
    /\ \E identifiable \in Answers \cup {"absent"}, anonymity \in Narratives :
          \E collection, storage \in Phases :
              doc = Identified(identifiable, anonymity, collection, storage)
    /\ file_names = SmithFiles
    /\ required_forms = SeedForms
    /\ facts = NoFacts
    /\ Start("Part 8")

NextAnonymity == StepPart8

SpecAnonymity == InitAnonymity /\ [][NextAnonymity]_vars

(***************************************************************************)
(* Whole runs on applications with several sections varied together: the   *)
(* texts that validate_part_3, validate_part_5 and validate_part_6 export  *)
(* and the questions of Part 8 that are compared with them.                *)
(***************************************************************************)
\* The stream of an application with the bodies given for some sections;
\* the headings of the sections in `missing` are left out.
Assembled(bodies, missing) ==
    ConcatAll([i \in 1..Len(PartKeys) |->
                  (IF PartKeys[i] \in missing THEN <<>> ELSE << <<HeaderOf(PartKeys[i])>> >>)
                  \o (IF PartKeys[i] \in DOMAIN bodies THEN bodies[PartKeys[i]]
                      ELSE BaseBody(PartKeys[i]))])

Recorded(methodology, involvement, missing, recordings, consent) ==
    Assembled(("Part 3" :> Part3Body(methodology, <<"Kazakhstan">>))
              @@ ("Part 5" :> Part5Body(involvement, "No [x]", "No [x]"))
              @@ ("Part 8" :> Part8Body(recordings, consent, "Yes [x]")), missing)

RecordedMethodologies ==
    {<<"interview", "<260 words>">>, <<"Video", "Interview", "<260 words>">>}

RecordedInvolvements == {<<"words">>, <<"audio", "recording">>}

RecordedMissing == {{}, {"Part 3"}, {"Part 5"}}

InitRecordings ==
    /\ \E methodology \in RecordedMethodologies, involvement \in RecordedInvolvements :
          \E missing \in RecordedMissing, recordings \in Answers \cup {"absent"} :
              \E consent \in {"Yes [x]", "No [x]", "Yes [ ]", "none", "absent"} :
                  doc = Recorded(methodology, involvement, missing, recordings, consent)
    /\ file_names = SmithFiles
    /\ required_forms = SeedForms
    /\ facts = NoFacts
    /\ Start("Part 0")

SpecRecordings == InitRecordings /\ [][Next]_vars

\* Applications that vary the data management plan of Part 6 and the
\* identifiability question of Part 8.
Managed(survey, stored, maintenance, shared, details, missing, identifiable) ==
    Assembled(("Part 6" :> Part6Fields(survey, "Yes [x]", stored, maintenance, shared,
                                       details))
              @@ ("Part 8" :> Part8Body("No [x]", "No [x]", identifiable)), missing)

Surveyed == {"Yes [x]", "No [x]", "Yes [ ]"}

Kept == {<<"words">>, <<"words", "Identifiable">>}

Told == {<<"words">>, <<"identifiable">>}

InitManaged ==
    /\ \E survey \in Surveyed, stored \in Told, maintenance \in Kept, details \in Told :
          \E shared \in {"Yes [x]", "Yes [ ]"}, missing \in {{}, {"Part 6"}} :
              \E identifiable \in {"Yes [x]", "No [x]", "Yes [ ]"} :
                  doc = Managed(survey, stored, maintenance, shared, details, missing,
                                identifiable)
    /\ file_names = SmithFiles
    /\ required_forms = SeedForms
    /\ facts = NoFacts
    /\ Start("Part 0")

SpecManaged == InitManaged /\ [][Next]_vars

(***************************************************************************)
(* Two runs of validate_irec_application on the same stream, file names    *)
(* and clock, their calls interleaved in every order.  A list of forms is  *)
(* an object: the heap holds the lists, a run holds the address of its     *)
(* list.  The orchestrator makes a list of the two seeds, validate_part_3  *)
(* makes a new one and extends it, the later validators append to the      *)
(* list they are given and return it.                                      *)
(***************************************************************************)
\* One list object for every run, as a list made when the module is loaded.
AllocatedOnce(heap, list) == IF heap = <<>> THEN <<list>> ELSE heap

\* required_forms = [...]: a new list object on the heap.
Allocated(heap, list) == Append(heap, list)

\* A run before its first statement.
NewRun ==
    [pc |-> "start", parts |-> <<>>, required_forms |-> 0, facts |-> NoFacts,
     summary |-> NoSummary]

\* The entries a validator appended to the list it was given.
AppendedBy(r, forms) == SubSeq(r.required_forms, Len(forms) + 1, Len(r.required_forms))

\* The run and the heap after a validator that files its results under
\* `key` and appends to the list of the run, in place.
Appending(run, heap, key, next, r) ==
    [run  |-> [run EXCEPT !.pc = next,
                          !.parts = Append(@, [part |-> key, results |-> r.results])],
     heap |-> [heap EXCEPT ![run.required_forms] =
                              Appended(@, AppendedBy(r, heap[run.required_forms]))]]

\* The next call of a run: the run and the heap after it.
RunCall(run, heap) ==
    LET ref == run.required_forms
        filed(key, r) == Append(run.parts, [part |-> key, results |-> r.results])
    IN  CASE run.pc = "start" ->
                The({[run  |-> [run EXCEPT !.pc = "Part 0", !.required_forms = Len(h)],
                      heap |-> h] : h \in {Allocated(heap, SeedForms)}})
          [] run.pc = "Part 0" ->
                The({[run  |-> [run EXCEPT !.pc = "Part 1", !.parts = filed("Part 0", r),
                                           !.facts.exemption_claimed = r.exemption_claimed],
                      heap |-> heap] : r \in {ValidatePart0(doc)}})
          [] run.pc = "Part 1" ->
                The({[run  |-> [run EXCEPT !.pc = "Part 2", !.parts = filed("Part 1", r)],
                      heap |-> heap] :
                     r \in {ValidatePart1(doc, run.facts.exemption_claimed)}})
          [] run.pc = "Part 2" ->
                The({[run  |-> [run EXCEPT !.pc = "Part 3", !.parts = filed("Part 2", r),
                                           !.facts.pi_surname = r.pi_surname],
                      heap |-> heap] : r \in {ValidatePart2(doc, now)}})
          [] run.pc = "Part 3" ->
                The({[run  |-> [run EXCEPT !.pc = "Part 4", !.parts = filed("Part 3", r),
                                           !.required_forms = Len(h),
                                           !.facts.methodology_text = r.methodology_text],
                      heap |-> [h EXCEPT ![Len(h)] = Appended(@, AppendedBy(r, SeedForms))]] :
                     r \in {ValidatePart3(doc)}, h \in {Allocated(heap, SeedForms)}})
          [] run.pc = "Part 4" ->
                The({Appending(run, heap, "Part 4", "Part 5", r) :
                     r \in {ValidatePart4(doc, heap[ref])}})
          [] run.pc = "Part 5" ->
                The({[Appending(run, heap, "Part 5", "Part 6", r)
                         EXCEPT !.run.facts.involvement_text = r.involvement_text] :
                     r \in {ValidatePart5(doc, heap[ref])}})
          [] run.pc = "Part 6" ->
                The({[Appending(run, heap, "Part 6", "Part 7", r)
                         EXCEPT !.run.facts.maintenance_text = r.maintenance_text,
                                !.run.facts.sharing_text = r.sharing_text,
                                !.run.facts.storage_text = r.storage_text] :
                     r \in {ValidatePart6(doc, heap[ref])}})
          [] run.pc = "Part 7" ->
                The({Appending(run, heap, "Part 7", "Part 8", r) :
                     r \in {ValidatePart7(doc, heap[ref])}})
          [] run.pc = "Part 8" ->
                The({IF r.raises THEN [run |-> [run EXCEPT !.pc = "raised"], heap |-> heap]
                     ELSE Appending(run, heap, "Part 8", "Part 10", r) :
                     r \in {ValidatePart8(doc, heap[ref], run.facts.methodology_text,
                                          run.facts.involvement_text,
                                          run.facts.maintenance_text,
                                          run.facts.sharing_text, run.facts.storage_text)}})
          [] run.pc = "Part 10" ->
                The({Appending(run, heap, "Part 10", "Part 11", r) :
                     r \in {ValidatePart10(doc, heap[ref])}})
          [] run.pc = "Part 11" ->
                The({Appending(run, heap, "Part 11", "summary", r) :
                     r \in {ValidatePart11(doc, heap[ref], run.facts.pi_surname,
                                           file_names)}})
          [] run.pc = "summary" ->
                [run  |-> [run EXCEPT !.pc = "done", !.summary = Summary(run.parts)],
                 heap |-> heap]

Ended(run) == run.pc \in {"done", "raised"}

\* The run n makes its next call; `mixed` records that the other run was
\* between its first and its last call then.
StepRun(n) ==
    /\ pc = "two runs"
    /\ ~Ended(runs.run[n])
    /\ \E c \in {RunCall(runs.run[n], runs.heap)} :
           runs' = [heap  |-> c.heap,
                    run   |-> [runs.run EXCEPT ![n] = c.run],
                    mixed |-> runs.mixed
                              \/ (runs.run[3 - n].pc # "start" /\ ~Ended(runs.run[3 - n]))]
    /\ UNCHANGED <<doc, file_names, now, pc, parts, required_forms, facts, section_text,
                   raised, summary>>

\* The streams of the two runs: with forms from several parts, without the
\* heading of Part 3, and one on which Part 8 raises.
TwoRunsApplications ==
    {Application("Part 4", Part4Body("Yes [x]", "Yes [x]", "Yes [x]"), "none"),
     Application("Part 0", BaseBody("Part 0"), "Part 3"),
     Application("Part 8", Part8Body("No [x]", "No [x]", "absent"), "none")}

InitTwoRuns ==
    /\ doc \in TwoRunsApplications
    /\ file_names = SmithFiles
    /\ now = Clock(Today, Noon)
    /\ required_forms = SeedForms
    /\ facts = NoFacts
    /\ pc = "two runs"
    /\ parts = <<>>
    /\ section_text = <<>>
    /\ raised = FALSE
    /\ summary = NoSummary
    /\ runs = [heap |-> <<>>, run |-> <<NewRun, NewRun>>, mixed |-> FALSE]

NextTwoRuns == StepRun(1) \/ StepRun(2)

SpecTwoRuns == InitTwoRuns /\ [][NextTwoRuns]_vars

(***************************************************************************)
(* What the properties below read off a state.                             *)
(***************************************************************************)
KeyIndex(key) == CHOOSE i \in 1..Len(PartKeys) : PartKeys[i] = key

\* The part whose validator was called last ("none" before the first call).
Called ==
    CASE pc = "Part 0"               -> "none"
      [] pc = "raised"               -> "Part 8"
      [] pc \in {"summary", "done"}  -> "Part 11"
      [] OTHER                       -> PartKeys[KeyIndex(pc) - 1]

\* The FindingSet filed for a part.
FiledIn(ps, key) ==
    LET at == {i \in 1..Len(ps) : ps[i].part = key}
    IN  ps[CHOOSE i \in at : TRUE].results

IsFiledIn(ps, key) == \E i \in 1..Len(ps) : ps[i].part = key

FiledFor(key) == FiledIn(parts, key)

IsFiled(key) == IsFiledIn(parts, key)

NotFoundResults(key) == Results(Err("section not found", key))

(***************************************************************************)
(* validate_part_3 alone, on the methodology and the research sites.       *)
(***************************************************************************)
DesignMethodologies ==
    {<<"mixed methods", "<260 words>">>, <<"mixed methods", "interview", "<260 words>">>,
     <<"mixed methods", "focus group", "<260 words>">>,
     <<"mixed methods", "survey", "<260 words>">>,
     <<"mixed methods", "online survey", "<260 words>">>,
     <<"mixed methods", "observation", "<260 words>">>,
     <<"mixed methods", "clinical trial", "<260 words>">>,
     <<"mixed methods", "interview", "survey", "<260 words>">>,
     <<"interview", "<260 words>">>, <<"survey", "<260 words>">>,
     <<"observation", "clinical trial", "<260 words>">>, <<"<260 words>">>, <<>>}

DesignSites ==
    Sites \cup {<<"Nazarbayev University", "schools">>, <<"KAZAKHSTAN">>,
                <<"nazarbayev university">>}

Designed(methodology, sites) ==
    Application("Part 3", Part3Body(methodology, sites), "none")

InitDesign ==
    /\ \E methodology \in DesignMethodologies, sites \in DesignSites :
          doc = Designed(methodology, sites)
    /\ file_names = SmithFiles
    /\ required_forms = SeedForms
    /\ facts = NoFacts
    /\ Start("Part 3")

NextDesign == StepPart3

SpecDesign == InitDesign /\ [][NextDesign]_vars

(***************************************************************************)
(* validate_part_4 alone, on the special populations and the justification *)
(* of the choice of the group.                                             *)
(***************************************************************************)
Justified(minors, drug_use, alcohol, justification, recruited, exclusions) ==
    Application("Part 4",
                Part4Answers(PopulationAnswers(minors, drug_use, alcohol), justification,
                             recruited, <<"words">>, <<"words">>, exclusions),
                "none")

InitJustified ==
    /\ \E minors \in Answers, drug_use \in Checked \cup {"Yes [ ]"} :
          \E alcohol, recruited \in Checked \cup {"Yes [ ]", "none"} :
              \E justification \in {<<"N/A [x]">>, <<"N/A [ ]">>, <<"words">>, <<>>} :
                  \E exclusions \in {<<"N/A [x]">>, <<"words">>} :
                      doc = Justified(minors, drug_use, alcohol, justification, recruited,
                                      exclusions)
    /\ file_names = SmithFiles
    /\ required_forms = SeedForms
    /\ facts = NoFacts
    /\ Start("Part 4")

NextJustified == StepPart4

SpecJustified == InitJustified /\ [][NextJustified]_vars

(***************************************************************************)
(* validate_part_7 alone, on the question on the benefits of the           *)
(* participants and its explanation.                                       *)
(***************************************************************************)
Benefiting(minimal_risk, benefit, explanation, incentives) ==
    Application("Part 7", Part7Fields(minimal_risk, benefit, explanation, incentives), "none")

InitBenefits ==
    /\ \E minimal_risk, benefit, incentives \in Answers :
          \E explanation \in {<<>>, <<"words">>} :
              doc = Benefiting(minimal_risk, benefit, explanation, incentives)
    /\ file_names = SmithFiles
    /\ required_forms = SeedForms
    /\ facts = NoFacts
    /\ Start("Part 7")

NextBenefits == StepPart7

SpecBenefits == InitBenefits /\ [][NextBenefits]_vars

(***************************************************************************)
(* Whole runs on the name of the Principal Investigator in Part 2 and the  *)
(* file names given to the run.                                            *)
(***************************************************************************)
\* Part 2 with the name of the Principal Investigator, or without the line
\* of the name.
Part2Named(named, pi_name) ==
    LET team == Part2Body(pi_name, <<"01/15/2025">>, <<"[ ]", "[x]", "[ ]", "[ ]">>)
    IN  IF named THEN team ELSE <<Head(team)>> \o Tail(Tail(team))

Named(named, pi_name, missing) == Assembled("Part 2" :> Part2Named(named, pi_name), missing)

NamingFiles ==
    {<<>>, SmithFiles,
     <<"Smith_IREC Application_01012025.docx">>, <<"Smith_Interview-Eng_01012025.pdf">>,
     <<"Jones_IREC Application_01012025.docx">>, <<"JrX_IREC Application_01012025.docx">>,
     <<"Jr._IREC Application_01012025.docx">>,
     <<"Smith_Interview-Eng_01012025.pdf", "Smith_IREC Application_01012025.docx">>,
     <<"JrX_IREC Application_01012025.docx", "JrX_CITI_01012023.pdf">>}

InitNaming ==
    /\ \E named \in BOOLEAN, missing \in {{}, {"Part 2"}} :
          \E pi_name \in {<<"John", "Smith">>, <<"John", "Smith", "Jr.">>, <<>>} :
              doc = Named(named, pi_name, missing)
    /\ file_names \in NamingFiles
    /\ required_forms = SeedForms
    /\ facts = NoFacts
    /\ Start("Part 0")

SpecNaming == InitNaming /\ [][Next]_vars

(***************************************************************************)
(* validate_part_5 alone on the pairs of dates, written on one line or on  *)
(* three.                                                                  *)
(***************************************************************************)
SpanLayouts == {"line", "lines"}

Spanning(start, end, layout) ==
    Application("Part 5",
                Part5Fields(IF layout = "line" THEN << <<start, "to", end>> >>
                            ELSE << <<start>>, <<"to">>, <<end>> >>,
                            <<"words">>, "No [x]", "No [x]"),
                "none")

InitSpan ==
    /\ \E start, end \in MonthYearAtoms :
          \E layout \in SpanLayouts : doc = Spanning(start, end, layout)
    /\ file_names = SmithFiles
    /\ required_forms = SeedForms
    /\ facts = NoFacts
    /\ Start("Part 5")

NextSpan == StepPart5

SpecSpan == InitSpan /\ [][NextSpan]_vars

(***************************************************************************)
(* validate_part_2 alone, on the blocks of the additional investigators.   *)
(***************************************************************************)
\* The paragraphs of the block of one additional investigator.
Investigator(b) ==
    << <<AIAnchor>>,
       <<"Name:">> \o b.name,
       <<"NU ID:">> \o b.nu_id,
       <<"NU School:", "GSE">>, <<"Department:", "Education">>, <<"Position:", "student">>,
       <<"E-mail address:">> \o b.email,
       <<CitiQuestion>>, <<b.status>>,
       <<"If yes:">>,
       <<AIDateLabel>> \o b.date >>

\* Part 2 with the blocks before the section of the students.
Investigated(blocks) ==
    LET team == Part2Team(<<"John", "Smith">>, <<"01/15/2025">>, <<"01/15/2025">>,
                          <<"[ ]", "[x]", "[ ]", "[ ]">>)
    IN  Application("Part 2",
                    SubSeq(team, 1, Len(team) - 3)
                    \o ConcatAll([i \in 1..Len(blocks) |-> Investigator(blocks[i])])
                    \o SubSeq(team, Len(team) - 2, Len(team)),
                    "none")

Investigators ==
    [name   : {<<>>, <<"Ann", "Lee">>},
     nu_id  : {<<>>, <<"2022">>},
     email  : {<<>>, <<"ai@nu.edu.kz">>, <<"nobody">>},
     status : YesNoTokens,
     date   : {<<>>, <<"01/15/2025">>, <<"06/30/2021">>, <<"soon">>}]

SecondInvestigator ==
    [name |-> <<"Bo", "Kim">>, nu_id |-> <<"2023">>, email |-> <<"ai@nu.edu.kz">>,
     status |-> "No [x]", date |-> <<"01/15/2025">>]

InvestigatorLists ==
    {<<>>} \cup {<<b>> \o rest : b \in Investigators, rest \in {<<>>, <<SecondInvestigator>>}}

InitInvestigators ==
    /\ \E blocks \in InvestigatorLists : doc = Investigated(blocks)
    /\ file_names = SmithFiles
    /\ required_forms = SeedForms
    /\ facts = NoFacts
    /\ Start("Part 2")

NextInvestigators == StepPart2

SpecInvestigators == InitInvestigators /\ [][NextInvestigators]_vars

(***************************************************************************)
(* validate_part_0 and validate_part_1 in one run, on the exemption        *)
(* question of Part 0 and the three review types of Part 1.                *)
(***************************************************************************)
Reviewed(exemption, missing, expedited, full_board, exempt) ==
    Assembled(("Part 0" :> Part0Body("Yes [x]", "No [x]", exemption, <<"words">>))
              @@ ("Part 1" :> Part1Body(<<"01/15/2025">>, expedited, full_board, exempt)),
              missing)

InitReview ==
    /\ \E exemption \in Checked \cup {"Yes [ ]", "none"}, missing \in {{}, {"Part 0"}} :
          \E expedited, full_board, exempt \in Answers :
              doc = Reviewed(exemption, missing, expedited, full_board, exempt)
    /\ file_names = SmithFiles
    /\ required_forms = SeedForms
    /\ facts = NoFacts
    /\ Start("Part 0")

NextReview == StepPart0 \/ StepPart1

SpecReview == InitReview /\ [][NextReview]_vars

(***************************************************************************)
(* C1                                                                      *)
(***************************************************************************)
\* C1: validate_irec_application never raises: every validator runs to
\* completion, and when the Part 8 section is there but its recordings or
\* its identifiability question is not matched, validate_part_8 has returned
\* with the "not found" error in its FindingSet.
C1_ReportAlwaysReturned ==
    /\ ~raised
    /\ pc # "raised"
    /\ (Called = "Part 8" /\ section_text # <<>>) =>
          /\ IsFiled("Part 8")
          /\ SearchAfterNL(section_text, RecordingsQ, YesNoTokens) = NotFound =>
                \E i \in 1..Len(FiledFor("Part 8").errors) :
                    FiledFor("Part 8").errors[i].msg
                        = "Recordings question not found or improperly formatted"
          /\ SearchAfterNL(section_text, IdentifiableQ, YesNoTokens) = NotFound =>
                \E i \in 1..Len(FiledFor("Part 8").errors) :
                    FiledFor("Part 8").errors[i].msg
                        = "Identifiability question not found or improperly formatted"

(***************************************************************************)
(* C2                                                                      *)
(***************************************************************************)
\* The applications that lack the heading of one section, each with the run
\* of the same application with every heading there.
LeftOut ==
    {[missing |-> PartKeys[i],
      doc     |-> Application("Part 0", b, PartKeys[i]),
      whole   |-> RunParts(Application("Part 0", b, "none"), SmithFiles, Clock(Today, Noon))] :
        b \in ExemptionBodies, i \in 1..Len(PartKeys)}

\* A call in a run on an application that lacks the heading of section K:
\* the call for K files exactly one "section not found" error and leaves
\* required_forms alone, every other call files what it files when the
\* heading of K is there.
IsolatedStep ==
    \A m \in LeftOut :
        (doc = m.doc /\ pc \in Range(PartKeys)) =>
            /\ IsFiledIn(parts', pc)
            /\ IF pc = m.missing
               THEN /\ FiledIn(parts', pc) = NotFoundResults(pc)
                    /\ required_forms' = required_forms
               ELSE FiledIn(parts', pc) = m.whole.parts[KeyIndex(pc)]

\* C2: section isolation.  In a stream that lacks the start marker of
\* section K, K's FindingSet is exactly one "section not found" error, the
\* forms list is as K received it, and every other section produces the
\* findings it produces when K's heading is present.
C2_SectionIsolation == [][IsolatedStep]_vars

(***************************************************************************)
(* C3                                                                      *)
(***************************************************************************)
\* The paragraphs that hold a marker.
ParasWith(paras, marker) == {i \in 1..Len(paras) : HasMarker(paras[i], marker)}

\* The paragraphs s..e, each with its line break.
TextOf(paras, s, e) == ConcatAll([i \in 1..(e - s + 1) |-> paras[s + i - 1] \o <<NL>>])

\* From the first start-marker paragraph through the first end-marker
\* paragraph of the stream; nothing when that one comes first.
ThroughEnd(paras, k) ==
    LET starts == ParasWith(paras, StartMarker(k))
        ends   == ParasWith(paras, EndMarker(k))
        last   == IF ends = {} THEN Len(paras) ELSE Least(ends)
    IN  IF starts = {} \/ Least(starts) > last THEN <<>>
        ELSE TextOf(paras, Least(starts), last)

\* From the first start-marker paragraph up to, not including, the first
\* later end-marker paragraph.
UpToEnd(paras, k) ==
    LET starts == ParasWith(paras, StartMarker(k))
        later  == {i \in ParasWith(paras, EndMarker(k)) : i > Least(starts)}
    IN  IF starts = {} THEN <<>>
        ELSE TextOf(paras, Least(starts),
                    IF later = {} THEN Len(paras) ELSE Least(later) - 1)

\* C3 (as amended): the section text a validator builds is the paragraphs
\* from the first one with the start marker through the first one of the
\* stream with the end marker, that paragraph included, or through the end
\* of the stream when none has it; it is empty when the first end-marker
\* paragraph precedes the first start-marker paragraph.
C3_ThroughEndMarker ==
    Called # "none" => section_text = ThroughEnd(doc, PartIds[KeyIndex(Called)])

\* A section with words between its heading and the next heading was sliced.
C3_SlicedBetweenHeadings ==
    /\ Called = "Part 0"
    /\ doc = << <<Header(0)>>, <<"words">>, <<Header(1)>> >>
    /\ section_text # <<>>

\* C3 (as claimed): the section text ends before the first later paragraph
\* with the end marker.
C3_UpToEndMarker ==
    Called # "none" => section_text = UpToEnd(doc, PartIds[KeyIndex(Called)])

(***************************************************************************)
(* C4                                                                      *)
(***************************************************************************)
\* The end of the span of the question at i: the next anchor among
\* `others`, or the end of the section.
SpanEnd(t, i, others) ==
    LET nx == FirstIn(t, i + 1, others) IN IF nx = 0 THEN Len(t) + 1 ELSE nx

\* The answer glyphs between the first `anchor` and the end of its span.
GlyphsInSpan(t, anchor, anchors) ==
    LET i == FirstIn(t, 1, {anchor})
    IN  IF i = 0 THEN {}
        ELSE {k \in (i + 1)..(SpanEnd(t, i, anchors \ {anchor}) - 1) : t[k] \in YesNoTokens}

Part0Anchors == {Part0Questions[i].text : i \in 1..Len(Part0Questions)}

\* The answer lies in the span of its question, and with no glyph in the
\* span the answer is "not found" and the error is filed.
WithinSpan(t, results, anchor, anchors, answer) ==
    LET glyphs == GlyphsInSpan(t, anchor, anchors)
    IN  IF glyphs = {}
        THEN /\ answer = NotFound
             /\ \E i \in 1..Len(results.errors) :
                    /\ results.errors[i].msg = "Response not found or improperly formatted"
                    /\ results.errors[i].arg = anchor
        ELSE answer = t[Least(glyphs)]

\* C4: the answer token of a yes/no question lies between its anchor and
\* the next question's anchor (or the end of the section); with no answer
\* glyph in that span the result is "not found" with an error, never the
\* answer of a later question.  Stated for the questions of Part 0 and the
\* review types of Part 1.
C4_AnswerWithinSpan ==
    /\ (Called = "Part 0" /\ section_text # <<>>) =>
          \A i \in 1..Len(Part0Questions) :
              WithinSpan(section_text, FiledFor("Part 0"), Part0Questions[i].text,
                         Part0Anchors, Part0Answer(section_text, Part0Questions[i]))
    /\ (Called = "Part 1" /\ section_text # <<>>) =>
          \A i \in 1..Len(ReviewTypes) :
              WithinSpan(section_text, FiledFor("Part 1"), ReviewTypes[i],
                         Range(ReviewTypes), Part1Answer(section_text, ReviewTypes[i]))

(***************************************************************************)
(* C5                                                                      *)
(***************************************************************************)
\* The findings of a list that are about `arg`.
About(findings, arg) == SelectSeq(findings, LAMBDA f : f.arg = arg)

\* An unchecked answer leaves one warning about its question, no error and
\* no info about it.
WarningOnly(results, anchor, answer) ==
    Unchecked(answer) =>
        /\ Len(About(results.warnings, anchor)) = 1
        /\ About(results.errors, anchor) = <<>>
        /\ ~\E i \in 1..Len(results.info) :
               results.info[i].arg = anchor /\ results.info[i].tok = answer

\* C5: a yes/no question matched with an unchecked token yields a warning
\* for it, no error, and no info finding that reports the token as the
\* answer.  Stated for the questions of Part 0 and the review types of
\* Part 1.
C5_UncheckedIsWarningOnly ==
    /\ (Called = "Part 0" /\ section_text # <<>>) =>
          \A i \in 1..Len(Part0Questions) :
              WarningOnly(FiledFor("Part 0"), Part0Questions[i].text,
                          Part0Answer(section_text, Part0Questions[i]))
    /\ (Called = "Part 1" /\ section_text # <<>>) =>
          \A i \in 1..Len(ReviewTypes) :
              WarningOnly(FiledFor("Part 1"), ReviewTypes[i],
                          Part1Answer(section_text, ReviewTypes[i]))

(***************************************************************************)
(* C6                                                                      *)
(***************************************************************************)
\* The number of entries of a list of forms with a name.
Entries(forms, name) == Cardinality({i \in 1..Len(forms) : forms[i].form = name})

\* The two seeds are the first two entries, and each is there once.
SeedsFirst(forms) ==
    /\ Len(forms) >= 2
    /\ SubSeq(forms, 1, 2) = SeedForms
    /\ Entries(forms, SeedForms[1].form) = 1
    /\ Entries(forms, SeedForms[2].form) = 1

\* One call of the orchestrator, on required_forms.
AppendOnlyStep ==
    /\ SeedsFirst(required_forms)
    /\ SeedsFirst(required_forms')
    /\ pc = "Part 3" /\ section_text' = <<>> => required_forms' = SeedForms
    /\ pc \in {"Part 4", "Part 5", "Part 6", "Part 7", "Part 8", "Part 10"} =>
          IsPrefix(required_forms, required_forms')
    /\ pc = "Part 11" => required_forms' = required_forms

\* C6: during a run the forms list begins with Appendix A and the CITI
\* certificates, each seeded once (also when Part 3 is not found); the list
\* before each of validate_part_4, 5, 6, 7, 8, 10 is a prefix of the list
\* after it; validate_part_11_and_checklist returns it unchanged.
C6_AppendOnly == [][AppendOnlyStep]_vars

\* A run that ended with forms appended after the seeds by several parts.
C6_FormsAppended ==
    /\ pc = "done"
    /\ Len(required_forms) >= 6
    /\ \E i \in 3..Len(required_forms) : required_forms[i].form = AppendixL

(***************************************************************************)
(* C7                                                                      *)
(***************************************************************************)
\* The applications whose methodology has "interview" in it and whose
\* research sites have "Kazakhstan".
InterviewInKazakhstan ==
    {Application("Part 3", Part3Body(m, st), "none") :
        m \in {m \in Methodologies : HasTerm(m, "interview")},
        st \in {st \in Sites : HasTerm(st, "kazakhstan")}}

\* validate_part_3 has returned on such an application.
C7_InterviewInKazakhstan == doc \in InterviewInKazakhstan /\ Called = "Part 3"

\* The names of the first n entries.
FirstNames(forms, n) == [i \in 1..n |-> forms[i].form]

\* The reason of an entry ends with a list that has "Russian, Kazakh" in it.
CitesRussianKazakh(form) ==
    \E i \in 1..(Len(form.languages) - 1) :
        form.languages[i] = "Russian" /\ form.languages[i + 1] = "Kazakh"

InOrder ==
    /\ Len(required_forms) >= 6
    /\ FirstNames(required_forms, 6)
          = <<SeedForms[1].form, SeedForms[2].form, AppendixB, AppendixD, InterviewGuides,
              RecruitmentMaterials>>

\* C7 (as amended): with "interview" in the methodology and "Kazakhstan" in
\* the research sites, validate_part_3 returns Appendix A, the CITI
\* certificates, Appendix B, Appendix D, the interview guides and the
\* recruitment materials, in this order; the reasons of Appendix B and
\* Appendix D cite "Russian, Kazakh", those of the interview guides and the
\* recruitment materials name no language.
C7_ConsentFormsCite ==
    C7_InterviewInKazakhstan =>
        /\ InOrder
        /\ CitesRussianKazakh(required_forms[3])
        /\ CitesRussianKazakh(required_forms[4])
        /\ required_forms[5].languages = <<>>
        /\ required_forms[6].languages = <<>>

\* C7 (as claimed): the reason of each of the four entries of the
\* qualitative cluster cites "Russian, Kazakh".
C7_AllFourCite ==
    C7_InterviewInKazakhstan =>
        /\ InOrder
        /\ \A i \in 3..6 : CitesRussianKazakh(required_forms[i])

(***************************************************************************)
(* C8                                                                      *)
(***************************************************************************)
\* The checklist mapping the call parsed: checklist_items, read as the
\* dictionary checked_forms.
ParsedItems == ChecklistItems(section_text, ChecklistStart(section_text))

Listed(items, label) == \E i \in 1..Len(items) : items[i].label = label

\* The value of the key: that of its last line.
Marked(items, label) ==
    \E i \in 1..Len(items) :
        /\ items[i].label = label /\ items[i].status = "[x]"
        /\ \A j \in (i + 1)..Len(items) : items[j].label # label

RequiredNames == [i \in 1..Len(required_forms) |-> required_forms[i].form]

\* The arguments of the findings of a list with a message, in order.
ArgsOf(findings, msg) ==
    LET with == SelectSeq(findings, LAMBDA f : f.msg = msg)
    IN  [i \in 1..Len(with) |-> with[i].arg]

ReconcileMessages ==
    {"Required form not listed in checklist", "Required form is listed but not checked",
     "Required form is correctly checked", "Form is checked but not required"}

\* The findings that do not come from the reconciliation.
Others(findings) == SelectSeq(findings, LAMBDA f : f.msg \notin ReconcileMessages)

\* A mapping was parsed and reconciled.
C8_Reconciled ==
    /\ Called = "Part 11"
    /\ ChecklistStart(section_text) # 0
    /\ ParsedItems # <<>>

\* The findings of the reconciliation are those the rule gives, no other.
ReconciledAsRuled ==
    LET res     == FiledFor("Part 11")
        items   == ParsedItems
        names   == RequiredNames
        checked == ArgsOf(res.warnings, "Form is checked but not required")
    IN  /\ ArgsOf(res.errors, "Required form not listed in checklist")
              = SelectSeq(names, LAMBDA name : ~Listed(items, name))
        /\ ArgsOf(res.errors, "Required form is listed but not checked")
              = SelectSeq(names, LAMBDA name : Listed(items, name) /\ ~Marked(items, name))
        /\ ArgsOf(res.info, "Required form is correctly checked")
              = SelectSeq(names, LAMBDA name : Marked(items, name))
        /\ Range(checked)
              = {label \in {items[i].label : i \in 1..Len(items)} :
                    Marked(items, label) /\ label \notin Range(names)}
        /\ \A i, j \in 1..Len(checked) : checked[i] = checked[j] => i = j
        /\ Results(Others(res.errors) \o Others(res.warnings) \o Others(res.info))
              = Results(Part11Naming(file_names, facts.pi_surname))

\* Required [X, Y] against the checklist {X: unchecked, Z: checked}.
C8_Example ==
    /\ C8_Reconciled
    /\ doc = Part11Doc(<< <<"X", "[ ]">>, <<"Z", "[x]">> >>)
    /\ RequiredNames = <<"X", "Y">>

\* C8: for every list of required forms and every parsed checklist mapping,
\* a required form absent from the checklist yields a "not listed" error,
\* one present but unmarked a "not checked" error, one present and marked
\* an info, and a marked label that is no required form a "checked but not
\* required" warning, and the rule yields no other finding; for required
\* [X, Y] and checklist {X: unchecked, Z: checked} the findings are the
\* error for X not checked, the error for Y not listed and the warning
\* for Z.
C8_Reconciliation ==
    /\ C8_Reconciled => ReconciledAsRuled
    /\ C8_Example =>
          LET res == FiledFor("Part 11")
          IN  /\ SelectSeq(res.errors, LAMBDA f : f.msg \in ReconcileMessages)
                    = Err("Required form is listed but not checked", "X")
                      \o Err("Required form not listed in checklist", "Y")
              /\ SelectSeq(res.warnings, LAMBDA f : f.msg \in ReconcileMessages)
                    = Warn("Form is checked but not required", "Z")
              /\ SelectSeq(res.info, LAMBDA f : f.msg \in ReconcileMessages) = <<>>

(***************************************************************************)
(* C9                                                                      *)
(***************************************************************************)
\* A name, its extension stripped, is the surname as it is written, then
\* one of the three shapes.
FollowsProtocol(file_name, pi_surname) ==
    LET name    == NameWithoutExt(FileTokens(file_name))
        surname == SurnamePattern(pi_surname)
        rest    == SubSeq(name, Len(surname) + 1, Len(name))
    IN  /\ Len(name) >= Len(surname)
        /\ SubSeq(name, 1, Len(surname)) = surname
        /\ ApplicationShape(rest) \/ InstrumentShape(rest) \/ TrainingShape(rest)

\* C9: a file name is valid iff, its extension stripped, it is one of
\* {Surname}_IREC Application_{8 digits}, {Surname}_{Description}-
\* {Eng|Ru|Kz}_{8 digits}, {Surname}_{CITI|TRREE}_{8 digits} with Surname
\* equal to pi_surname, and every file that is none of them yields one
\* error; with pi_surname "Smith" the application and the interview
\* instrument of Smith are valid and the application of Jones is not.
C9_NamingProtocol ==
    (Called = "Part 11" /\ section_text # <<>> /\ facts.pi_surname # "") =>
        \A i \in 1..Len(file_names) :
            LET about == About(FiledFor("Part 11").errors, file_names[i])
                same  == {j \in 1..Len(file_names) : file_names[j] = file_names[i]}
            IN  /\ ValidateFileName(file_names[i], facts.pi_surname).valid
                      = FollowsProtocol(file_names[i], facts.pi_surname)
                /\ IF FollowsProtocol(file_names[i], facts.pi_surname)
                   THEN about = <<>>
                   ELSE Len(about) = Cardinality(same)

(***************************************************************************)
(* C10                                                                     *)
(***************************************************************************)
\* The review types whose own line holds the marked "Yes".
MarkedReviews(t) ==
    {i \in 1..Len(ReviewTypes) : SearchSameLine(t, ReviewTypes[i], YesNoTokens) = "Yes [x]"}

\* The student categories whose box is marked.
MarkedCategories(t) ==
    {n \in 1..Len(StudentCategories) : t[StudentSection(t)[n] + 1] = "[x]"}

ExactlyOneErrors(results) ==
    SelectSeq(results.errors,
              LAMBDA f : f.msg \in {"Exactly one review type must be selected. Found",
                                    "Exactly one student category must be selected. Found"})

\* No error when one is marked, else one error that states the number.
CountsMarked(results, marked) ==
    IF marked = 1 THEN ExactlyOneErrors(results) = <<>>
    ELSE /\ Len(ExactlyOneErrors(results)) = 1
         /\ ExactlyOneErrors(results)[1].n = marked

\* C10: for the review types of Part 1 and the student categories of
\* Part 2, one marked checkbox yields no "Exactly one ... must be selected"
\* error; none, or two or more, yield exactly one, and it states the number
\* of marked checkboxes.
C10_ExactlyOne ==
    /\ (Called = "Part 1" /\ section_text # <<>>) =>
          CountsMarked(FiledFor("Part 1"), Cardinality(MarkedReviews(section_text)))
    /\ (Called = "Part 2" /\ section_text # <<>> /\ StudentSection(section_text) # <<>>) =>
          CountsMarked(FiledFor("Part 2"), Cardinality(MarkedCategories(section_text)))

(***************************************************************************)
(* C11                                                                     *)
(***************************************************************************)
\* The findings of a list with a message and an argument.
Found(findings, msg, arg) ==
    \E i \in 1..Len(findings) : findings[i].msg = msg /\ findings[i].arg = arg

\* The day number of the day `years` calendar years before a day.
YearsBefore(i, years) == DayNumber(i.year - years, i.month, i.day)

\* The training date of a role, read as validate_part_2 reads it.
TrainingDateOf(t, role, label) == RoleField(t, role, label).value

\* The gate on one training date at the clock day i: a date one day after
\* the day three years before is valid, a date one day before it is older
\* than 3 years.
Gated(results, value, who, i) ==
    (Len(value) = 1 /\ value[1] \in DatesMDY) =>
        /\ DayOf(value[1]) = YearsBefore(i, 3) + 1 =>
              /\ Found(results.info, "CITI Training date is valid", who)
              /\ ~Found(results.errors, "CITI Training date is older than 3 years", who)
        /\ DayOf(value[1]) = YearsBefore(i, 3) - 1 =>
              Found(results.errors, "CITI Training date is older than 3 years", who)

\* C11: for the Principal Investigator and the Research Advisor, a
\* well-formed training date exactly 3 years minus 1 day before now is
\* accepted with the info "date is valid", and one exactly 3 years plus 1
\* day before now is rejected with the error "older than 3 years", for every
\* value of now, the spans with a leap day included.
C11_DateGate ==
    (Called = "Part 2" /\ section_text # <<>>) =>
        \A i \in Instants :
            now.day = DayNumber(i.year, i.month, i.day) =>
                /\ Gated(FiledFor("Part 2"),
                         TrainingDateOf(section_text, PIRole, "CITI Training completion date:"),
                         "PI", i)
                /\ Gated(FiledFor("Part 2"),
                         TrainingDateOf(section_text, RARole,
                                        "CITI or alternative training completion date:"),
                         "RA", i)

(***************************************************************************)
(* C12                                                                     *)
(***************************************************************************)
\* The list a run holds.
ListOf(n) == runs.heap[runs.run[n].required_forms]

\* The run n holds a list of its own, with nothing in it that a run alone
\* on the same inputs does not put there.
OwnList(n, alone) ==
    runs.run[n].pc # "start" =>
        /\ runs.run[3 - n].pc # "start" =>
               runs.run[n].required_forms # runs.run[3 - n].required_forms
        /\ \/ ListOf(n) = SeedForms
           \/ IsPrefix(ListOf(n), alone.required_forms)

\* Both runs have ended, in one order or another of their calls.
C12_BothEnded == pc = "two runs" /\ Ended(runs.run[1]) /\ Ended(runs.run[2])

\* Two interleaved runs have returned, with forms from several validators.
C12_InterleavedRunsReturned ==
    /\ C12_BothEnded
    /\ runs.mixed
    /\ runs.run[1].pc = "done"
    /\ Len(ListOf(1)) >= 6

\* C12: two runs on the same stream, file names and clock return identical
\* parts and identical required_forms, in sequence or interleaved: each run
\* builds its own FindingSets and its own list of forms, and no entry of one
\* run is in the list of the other.  (On a stream on which validate_part_8
\* raises, both runs raise.)
C12_RunsAgree ==
    pc = "two runs" =>
        LET alone == RunParts(doc, file_names, now)
        IN  /\ OwnList(1, alone) /\ OwnList(2, alone)
            /\ C12_BothEnded =>
                  /\ runs.run[1].pc = runs.run[2].pc
                  /\ runs.run[1].parts = runs.run[2].parts
                  /\ runs.run[1].summary = runs.run[2].summary
                  /\ ListOf(1) = ListOf(2)
                  /\ runs.run[1].pc = "done" =>
                        /\ [i \in 1..Len(runs.run[1].parts) |->
                               runs.run[1].parts[i].results] = alone.parts
                        /\ ListOf(1) = alone.required_forms

(***************************************************************************)
(* C13                                                                     *)
(***************************************************************************)
\* The keys of the parts filed so far, in the order they were filled in.
KeysFiled == [i \in 1..Len(parts) |-> parts[i].part]

\* The number of findings of one severity over the parts filed.
RECURSIVE Total(_, _)
Total(lengths, i) == IF i = 0 THEN 0 ELSE lengths[i] + Total(lengths, i - 1)

\* The report of a run that has returned: the eleven keys in order, the
\* summary of their lengths, and the list after the last validator.
C13_ReportOfReturnedRun ==
    pc = "done" =>
        /\ KeysFiled = PartKeys
        /\ summary = [errors   |-> Total([i \in 1..11 |-> Len(parts[i].results.errors)], 11),
                      warnings |-> Total([i \in 1..11 |-> Len(parts[i].results.warnings)], 11),
                      info     |-> Total([i \in 1..11 |-> Len(parts[i].results.info)], 11)]
        /\ required_forms = RunParts(doc, file_names, now).required_forms

\* C13: for every input, missing sections included, the report has exactly
\* the eleven keys 'Part 0' to 'Part 8', 'Part 10', 'Part 11' in that order,
\* summary.errors, warnings and info are the sums of the lengths over the
\* eleven parts, and required_forms is the list after the last validator.
C13_ElevenParts ==
    /\ pc # "raised"
    /\ C13_ReportOfReturnedRun

(***************************************************************************)
(* C14                                                                     *)
(***************************************************************************)
\* Empty, or marked 'N/A [x]' with no other text.
NotApplicable(value) == value \in {<<>>, <<"N/A [x]">>}

\* What the claim says of one narrative under the recruitment answer.
RecruitmentRule(results, recruited, value, what) ==
    LET errors == Len(About(results.errors, what))
    IN  /\ recruited = "No [x]" =>
              errors = (IF NotApplicable(value) THEN 0 ELSE 1)
        /\ recruited = "Yes [x]" =>
              /\ NotApplicable(value) => errors >= 1
              /\ value = <<"words">> =>
                    errors = 0 /\ Found(results.info, "description provided", what)

\* C14: Part 4 recruitment.  Answered 'No [x]': no contact-method error and
\* no recruitment-method error when the field is empty or marked 'N/A [x]'
\* with no other text, one error per field otherwise.  Answered 'Yes [x]': a
\* field marked 'N/A [x]' or empty is an error, a field with a description
\* is info.
C14_Recruitment ==
    Called = "Part 4" =>
        \A recruited \in Answers, contact, method \in Narratives :
            \A exclusions \in {<<"N/A [x]">>, <<"words">>} :
                doc = Recruiting(recruited, contact, method, exclusions) =>
                    /\ RecruitmentRule(FiledFor("Part 4"), recruited, contact,
                                       "Contact method")
                    /\ RecruitmentRule(FiledFor("Part 4"), recruited, method,
                                       "Recruitment method")

(***************************************************************************)
(* C15                                                                     *)
(***************************************************************************)
AnonymityMessages ==
    {"Anonymity procedures cannot be N/A when identifiability is No",
     "Anonymity procedures description is missing or empty when identifiability is No",
     "Anonymity procedures description provided",
     "Anonymity procedures should be N/A when identifiability is Yes",
     "Anonymity procedures should be empty when identifiability is Yes"}

\* The findings on the anonymity narrative.
OnAnonymity(findings) == SelectSeq(findings, LAMBDA f : f.msg \in AnonymityMessages)

\* What the claim says of the narrative of one phase.
PhaseRule(results, identifiable, value, name) ==
    /\ identifiable = "No [x]" =>
          /\ Len(About(results.warnings, name)) = (IF value = <<>> THEN 0 ELSE 1)
          /\ About(results.errors, name) = <<>>
    /\ identifiable = "Yes [x]" =>
          IF value = <<>> THEN Len(About(results.errors, name)) = 1
          ELSE About(results.errors, name) = <<>> /\ Len(About(results.info, name)) = 1
    /\ Unchecked(identifiable) =>
          /\ About(results.errors, name) = <<>>
          /\ About(results.warnings, name) = <<>>
          /\ About(results.info, name) = <<>>

\* What the claim says of the anonymity narrative.
AnonymityRule(results, identifiable, value) ==
    /\ identifiable = "No [x]" =>
          IF NotApplicable(value) THEN Len(OnAnonymity(results.errors)) = 1
          ELSE value = <<"words">> =>
                  /\ OnAnonymity(results.errors) = <<>>
                  /\ Len(OnAnonymity(results.info)) = 1
    /\ Unchecked(identifiable) =>
          /\ OnAnonymity(results.errors) = <<>>
          /\ OnAnonymity(results.warnings) = <<>>
          /\ OnAnonymity(results.info) = <<>>

\* C15: the anonymity and the phase checks of validate_part_8 follow the
\* checked identifiability answer only.  With 'No [x]' the anonymity
\* narrative is required and must not be N/A, and each non-empty phase
\* narrative is flagged; with 'Yes [x]' the phase narratives are each
\* required; with the checkbox unchecked the only finding is the 'not
\* marked' warning: no anonymity finding, no phase-narrative finding.
C15_FollowsCheckedAnswer ==
    IsFiled("Part 8") =>
        \A identifiable \in YesNoTokens, anonymity \in Narratives :
            \A collection, storage \in Phases :
                doc = Identified(identifiable, anonymity, collection, storage) =>
                    /\ AnonymityRule(FiledFor("Part 8"), identifiable, anonymity)
                    /\ PhaseRule(FiledFor("Part 8"), identifiable, collection, CollectionQ)
                    /\ PhaseRule(FiledFor("Part 8"), identifiable, storage, StorageQ)
                    /\ Unchecked(identifiable) =>
                          Found(FiledFor("Part 8").warnings,
                                "Identifiability checkbox is not marked", "")

\* The part of C15 on the checked answers.
C15_CheckedAnswers ==
    IsFiled("Part 8") =>
        \A identifiable \in {"Yes [x]", "No [x]"}, anonymity \in Narratives :
            \A collection, storage \in Phases :
                doc = Identified(identifiable, anonymity, collection, storage) =>
                    /\ AnonymityRule(FiledFor("Part 8"), identifiable, anonymity)
                    /\ PhaseRule(FiledFor("Part 8"), identifiable, collection, CollectionQ)
                    /\ PhaseRule(FiledFor("Part 8"), identifiable, storage, StorageQ)

(***************************************************************************)
(* C16                                                                     *)
(***************************************************************************)
\* The text has one of the keywords of rule A, in any case of the letters.
Mentions(text) ==
    \E i \in 1..Len(text), term \in {"video", "audio", "photograph", "recording"} :
        AtomHas(text[i], term)

RuleAErrors(results) ==
    Len(SelectSeq(results.errors, LAMBDA f :
            f.msg = "Part 8.1 should be 'Yes' as Parts 3 or 5 mention video/audio/photograph"))

RuleAWarnings(results) ==
    Len(SelectSeq(results.warnings, LAMBDA f :
            f.msg = "Part 8.1 is 'Yes' but no video/audio/photograph mentioned in Parts 3 or 5"))

\* Rule A on the texts of Part 3 and Part 5 and the answer on recordings.
RuleA(results, methodology_text, involvement_text, recordings) ==
    LET mentioned == Mentions(methodology_text) \/ Mentions(involvement_text)
    IN  /\ RuleAErrors(results) = (IF mentioned /\ recordings # "Yes [x]" THEN 1 ELSE 0)
        /\ RuleAWarnings(results) = (IF ~mentioned /\ recordings = "Yes [x]" THEN 1 ELSE 0)

\* Part 3 was not found, Part 5 mentions audio recording, and the answer
\* 'No [x]' on recordings has the error of rule A.
C16_MentionedButNo ==
    /\ IsFiled("Part 8")
    /\ \E consent \in Answers \cup {"absent"} :
          doc = Recorded(<<"Video", "Interview", "<260 words>">>, <<"audio", "recording">>,
                         {"Part 3"}, "No [x]", consent)
    /\ facts.methodology_text = <<>>
    /\ RuleAErrors(FiledFor("Part 8")) = 1

\* C16: consistency rule A, recordings question checked.  If the text of
\* the methodology or of the involvement has video, audio, photograph or
\* recording (in any case) and the answer is not 'Yes [x]': exactly one
\* rule-A error.  If neither has a keyword and the answer is 'Yes [x]':
\* exactly one rule-A warning and no rule-A error.  Otherwise nothing.  The
\* texts are those exported by validate_part_3 and validate_part_5 in the
\* same run, empty when the section was not found.
C16_RuleA ==
    IsFiled("Part 8") =>
        \A methodology \in RecordedMethodologies, involvement \in RecordedInvolvements :
            \A missing \in RecordedMissing, recordings \in {"Yes [x]", "No [x]"} :
                \A consent \in Answers \cup {"absent"} :
                    doc = Recorded(methodology, involvement, missing, recordings, consent) =>
                        RuleA(FiledFor("Part 8"),
                              IF "Part 3" \in missing THEN <<>> ELSE methodology,
                              IF "Part 5" \in missing THEN <<>> ELSE involvement,
                              recordings)

(***************************************************************************)
(* C17                                                                     *)
(***************************************************************************)
ConsentMismatches(results) ==
    Len(SelectSeq(results.errors, LAMBDA f :
            f.msg \in {"Consent for recordings must be 'Yes' when recordings is 'Yes'",
                       "Consent for recordings should be 'No' or unanswered when recordings is 'No'"}))

\* Both questions are checked and the answers differ.
Disagree(recordings, consent) ==
    /\ recordings \in {"Yes [x]", "No [x]"}
    /\ consent \in {"Yes [x]", "No [x]"}
    /\ recordings # consent

\* The error on consent is there exactly when the answers, taken from the
\* set `answers`, are checked and differ.
ConsentRule(answers) ==
    IsFiled("Part 8") =>
        \A methodology \in RecordedMethodologies, involvement \in RecordedInvolvements :
            \A missing \in RecordedMissing, recordings, consent \in answers :
                doc = Recorded(methodology, involvement, missing, recordings, consent) =>
                    ConsentMismatches(FiledFor("Part 8"))
                        = (IF Disagree(recordings, consent) THEN 1 ELSE 0)

\* The rule on the streams in which each of the two questions has a glyph
\* of its own or is not there at all.
C17_OwnAnswers == ConsentRule(YesNoTokens \cup {"absent"})

\* C17: a consent-for-recordings error is recorded exactly when both
\* questions are checked and disagree (recordings 'Yes [x]' with consent
\* 'No [x]', or recordings 'No [x]' with consent 'Yes [x]'); when the checked
\* answers agree, or either question is unchecked or not found, there is no
\* consent-mismatch error.
C17_ConsentMismatch == ConsentRule(Answers \cup {"absent"})

(***************************************************************************)
(* C18                                                                     *)
(***************************************************************************)
\* 'identifiable' is in one of the three texts that Part 6 exported.
Part6Identifiable ==
    \E text \in {facts.maintenance_text, facts.sharing_text, facts.storage_text} :
        \E i \in 1..Len(text) : AtomHas(text[i], "identifiable")

RuleBMessages ==
    {"Identifiability in Part 8 is consistent with Part 6",
     "Part 8.3 is 'Yes' but Part 6 does not mention identifiable data",
     "Part 8.3 should be 'Yes' as Part 6 mentions identifiable data"}

RuleB(findings) == SelectSeq(findings, LAMBDA f : f.msg \in RuleBMessages)

\* The answer on identifiability, read off the stream.
IdentifiableAnswer == At(doc, FirstIn(doc, 1, {<<IdentifiableQ>>}) + 1)[1]

\* Part 6 exported a maintenance text with 'Identifiable' as its second
\* word, the data are said not to be identifiable, and Part 8 has the error
\* of rule B.
C18_IdentifiableButNo ==
    /\ IsFiled("Part 8")
    /\ facts.maintenance_text = <<"words", "Identifiable">>
    /\ ~AtomHas(facts.storage_text[1], "identifiable")
    /\ IdentifiableAnswer = "No [x]"
    /\ Len(RuleB(FiledFor("Part 8").errors)) = 1

\* C18: consistency rule B.  With identifiability 'Yes [x]', 'identifiable'
\* absent from all of maintenance_text, sharing_text and storage_text gives
\* a warning and its presence gives an info, never an error; with 'No [x]'
\* its presence in any of the three gives an error and its absence gives no
\* finding.  The three texts are those validate_part_6 exported in the run.
C18_RuleB ==
    IsFiled("Part 8") =>
        LET results == FiledFor("Part 8")
            count == <<Len(RuleB(results.errors)), Len(RuleB(results.warnings)),
                       Len(RuleB(results.info))>>
        IN  /\ IdentifiableAnswer = "Yes [x]" =>
                  count = (IF Part6Identifiable THEN <<0, 0, 1>> ELSE <<0, 1, 0>>)
            /\ IdentifiableAnswer = "No [x]" =>
                  count = (IF Part6Identifiable THEN <<1, 0, 0>> ELSE <<0, 0, 0>>)

(***************************************************************************)
(* C19                                                                     *)
(***************************************************************************)
\* Part 6 is there and its electronic-survey question has an empty box.
SurveyUnchecked ==
    /\ FirstIn(doc, 1, {<<HeaderOf("Part 6")>>}) # 0
    /\ FirstIn(doc, 1, {<<ESurveyQ, "Yes [ ]">>, <<ESurveyQ, "No [ ]">>}) # 0

\* The call of validate_part_6 leaves one warning, the list as it was and
\* three empty texts; the call of validate_part_8, later in the run, finds
\* no 'identifiable' in them.
ShortCircuit ==
    SurveyUnchecked =>
        /\ pc = "Part 6" =>
              /\ FiledIn(parts', "Part 6").errors = <<>>
              /\ FiledIn(parts', "Part 6").info = <<>>
              /\ Len(FiledIn(parts', "Part 6").warnings) = 1
              /\ Found(FiledIn(parts', "Part 6").warnings,
                       "Electronic survey checkbox is not marked", "")
              /\ required_forms' = required_forms
              /\ facts'.maintenance_text = <<>>
              /\ facts'.sharing_text = <<>>
              /\ facts'.storage_text = <<>>
        /\ (pc = "Part 8" /\ pc' = "Part 10") =>
              /\ RuleB(FiledIn(parts', "Part 8").errors) = <<>>
              /\ RuleB(FiledIn(parts', "Part 8").info) = <<>>
              /\ Len(RuleB(FiledIn(parts', "Part 8").warnings))
                    = (IF IdentifiableAnswer = "Yes [x]" THEN 1 ELSE 0)

\* The survey question is unchecked, the maintenance narrative of Part 6
\* has 'Identifiable', and Part 8, answered 'Yes [x]', has the warning that
\* Part 6 does not mention identifiable data.
C19_NarrativesUnseen ==
    /\ IsFiled("Part 8")
    /\ SurveyUnchecked
    /\ FirstIn(doc, 1, {<<"words", "Identifiable">>}) # 0
    /\ FiledFor("Part 6").errors = <<>>
    /\ required_forms[Len(required_forms)].form = AppendixL
    /\ Found(FiledFor("Part 8").warnings,
             "Part 8.3 is 'Yes' but Part 6 does not mention identifiable data", "")

\* C19: when Part 6 is found and its electronic-survey question is matched
\* but unchecked, the FindingSet of Part 6 is exactly one warning, without
\* errors and without info, the forms list is returned with no entry added,
\* and maintenance_text, sharing_text and storage_text are exported empty:
\* rule B of Part 8 sees no 'identifiable', whatever the narratives of
\* Part 6 contain.
C19_SurveyGate == [][ShortCircuit]_vars

(***************************************************************************)
(* C20                                                                     *)
(***************************************************************************)
OnJustification(findings) ==
    SelectSeq(findings, LAMBDA f : f.msg \in {"Exemption justification provided",
                                              "Exemption claimed, but no justification provided"})

\* Every finding of Part 0 on the justification and on the categories.
FollowUps(results, names) ==
    LET all == results.errors \o results.warnings \o results.info
    IN  OnJustification(all) \o SelectSeq(all, LAMBDA f : f.arg \in names)

\* The checks when the exemption question is answered 'Yes [x]'.
FollowUpRule(results, box, justification) ==
    /\ justification = <<>> =>
          Found(results.warnings, "Exemption claimed, but no justification provided", "")
    /\ \A i \in 1..3 :
          box[i] = "[x]" =>
              Found(results.errors, "Exemption category is checked. Must be unchecked",
                    ExemptionCategories[i])

\* The follow-up checks on the answers of the set `answers`.
ExemptionRule(answers) ==
    Called = "Part 0" =>
        \A exemption \in answers, f1, f2, f3 \in Boxes :
            \A justification \in {<<>>, <<"words">>} :
                doc = Exempted(exemption, f1, f2, f3, justification) =>
                    IF exemption = "Yes [x]"
                    THEN FollowUpRule(FiledFor("Part 0"), <<f1, f2, f3>>, justification)
                    ELSE FollowUps(FiledFor("Part 0"), {"f1", "f2", "f3"}) = <<>>

\* The part of the rule on the answer 'Yes [x]', and the justification on
\* every answer.
C20_WhenClaimed ==
    /\ ExemptionRule({"Yes [x]"})
    /\ (Called = "Part 0" /\ ~facts.exemption_claimed) =>
           FollowUps(FiledFor("Part 0"), {}) = <<>>

\* C20: the exemption follow-up checks of validate_part_0 run exactly when
\* the exemption question is answered 'Yes [x]': then a missing justification
\* is a warning and each of f1, f2, f3 that is checked is an error; when the
\* question is answered 'No [x]', is unchecked or is not found, Part 0 has no
\* finding about the justification or about f1, f2, f3.
C20_ExemptionFollowUp == ExemptionRule(Answers)

(***************************************************************************)
(* C21                                                                     *)
(***************************************************************************)
\* The answer a question has on the line after its own, read off the
\* stream: "absent" without the question, "none" without an answer there.
OwnAnswer(text) ==
    LET i == FirstIn(doc, 1, {<<text>>})
    IN  IF i = 0 THEN "absent"
        ELSE IF i < Len(doc) /\ doc[i + 1] \in {<<a>> : a \in YesNoTokens} THEN doc[i + 1][1]
        ELSE "none"

\* The predicate of the i-th question fires on its own checked answer.
Fires(i) ==
    LET answer == OwnAnswer(Part0Questions[i].text)
    IN  /\ answer \in Checked
        /\ CASE i \in {1, 4, 5} -> answer = "Yes [x]"
             [] i \in {2, 3}    -> answer = "No [x]"
             [] OTHER           -> TRUE

NeededRule ==
    /\ Found(FiledFor("Part 0").errors, "Part 0 responses indicate no application is needed", "")
          <=> ~\E i \in 1..6 : Fires(i)
    /\ facts.exemption_claimed <=> OwnAnswer(ExemptionQuestion) = "Yes [x]"

\* The rule on the streams in which every question that is there has an
\* answer on its next line.
C21_OwnAnswers ==
    (Called = "Part 0" /\ \A i \in 1..6 : OwnAnswer(Part0Questions[i].text) # "none")
        => NeededRule

\* C21: validate_part_0 records the 'no application is needed' error exactly
\* when no checked answer satisfies the predicate of its question ('Yes' for
\* human subjects, future investigations and publishing, 'No' for course
\* requirements and quality assurance, any checked answer for the exemption
\* question); unchecked or unmatched questions fire no predicate; and
\* exemption_claimed is true iff the exemption question is answered 'Yes [x]'.
C21_ApplicationNeeded == Called = "Part 0" => NeededRule

(***************************************************************************)
(* C22                                                                     *)
(***************************************************************************)
\* An error of the rule on the selection of the review type.
ReviewTypeError(errors) ==
    \E i \in 1..Len(errors) :
        errors[i].msg \in {"Exactly one review type must be selected. Found",
                           "School-level review requires 'An Expedited Review'. Selected"}

NotClaimedError(errors) ==
    Found(errors, "Exemption selected in Part 1, but Part 0 does not claim exemption", "")

\* C22: in validate_part_1, when exactly one review type is answered
\* 'Yes [x]' an error about the review type is recorded iff that type is not
\* 'An Expedited Review'; and whenever 'An Exemption' is answered 'Yes [x]'
\* while exemption_claimed, as Part 0 of the same run returned it, is false,
\* the 'Part 0 does not claim exemption' error is recorded as well, whatever
\* the number of selected types.
C22_ReviewType ==
    (Called = "Part 1" /\ section_text # <<>>) =>
        LET marked == MarkedReviews(section_text)
            errors == FiledFor("Part 1").errors
        IN  /\ Cardinality(marked) = 1 => (ReviewTypeError(errors) <=> marked # {1})
            /\ (3 \in marked /\ ~facts.exemption_claimed) => NotClaimedError(errors)
            /\ facts.exemption_claimed =>
                  (IsFiled("Part 0") /\ OwnAnswer(ExemptionQuestion) = "Yes [x]")

\* Two review types are marked, one of them the exemption that Part 0
\* answers with 'No [x]': both errors are recorded.
C22_ExemptionNotClaimed ==
    /\ Called = "Part 1"
    /\ MarkedReviews(section_text) = {1, 3}
    /\ OwnAnswer(ExemptionQuestion) = "No [x]"
    /\ ReviewTypeError(FiledFor("Part 1").errors)
    /\ NotClaimedError(FiledFor("Part 1").errors)

(***************************************************************************)
(* C23                                                                     *)
(***************************************************************************)
\* The findings of a list that carry the number of an investigator.
Numbered(findings, count) == SelectSeq(findings, LAMBDA f : f.n = count)

\* An error with the number of the investigator about one of the arguments.
ErrorAbout(results, count, args) ==
    \E i \in 1..Len(results.errors) :
        results.errors[i].n = count /\ results.errors[i].arg \in args

\* An error with the number of the investigator about the training date.
TrainingError(results, count) ==
    \E i \in 1..Len(results.errors) :
        /\ results.errors[i].n = count
        /\ \/ results.errors[i].arg = "AI CITI or alternative training completion date"
           \/ results.errors[i].msg \in
                  {"CITI Training date is older than 3 years",
                   "CITI Training date is not in valid format (MM/DD/YYYY)"}

\* The rules of the PI and Research Advisor blocks on the status and the
\* fields of the block b with the number count, the e-mail among them or
\* not.
BlockRules(results, b, count, with_email) ==
    /\ b.name = <<>> => ErrorAbout(results, count, {"AI Name"})
    /\ b.nu_id = <<>> => ErrorAbout(results, count, {"AI NU ID"})
    /\ b.email = <<>> => ErrorAbout(results, count, {"AI E-mail address"})
    /\ (with_email /\ b.email = <<"nobody">>) =>
          ErrorAbout(results, count, {"AI E-mail address"})
    /\ TrainingError(results, count) <=> b.date # <<"01/15/2025">>
    /\ Found(Numbered(results.errors, count), "CITI training status is 'No'", "AI")
          <=> b.status = "No [x]"
    /\ Found(Numbered(results.warnings, count), "CITI training status checkbox is not marked",
              "AI")
          <=> b.status \in {"Yes [ ]", "No [ ]"}

NoInvestigatorsInfo(results) == Found(results.info, "No Additional Investigators specified", "")

\* Every block has a name, and a date unless it is the last block.
Delimited(blocks) ==
    \A i \in 1..Len(blocks) :
        blocks[i].name # <<>> /\ (i < Len(blocks) => blocks[i].date # <<>>)

InvestigatorRules(with_email, delimited) ==
    Called = "Part 2" =>
        \A blocks \in InvestigatorLists :
            (doc = Investigated(blocks) /\ (delimited => Delimited(blocks))) =>
                LET results == FiledFor("Part 2")
                IN  /\ \A i \in 1..Len(blocks) : BlockRules(results, blocks[i], i, with_email)
                    /\ NoInvestigatorsInfo(results) <=> blocks = <<>>
                    /\ blocks = <<>> =>
                          \A sev \in {"errors", "warnings", "info"} :
                              \A i \in 1..Len(results[sev]) :
                                  /\ results[sev][i].n = 0
                                  /\ results[sev][i].arg \notin Range(AIFields)

\* The rules on the blocks that have a name and end before the next block,
\* the shape of the e-mail apart.
C23_NamedBlocks == InvestigatorRules(FALSE, TRUE)

\* C23: every matched Additional Investigator block is counted and validated
\* by the rules of the PI and Research Advisor blocks: an empty field is an
\* error, an e-mail that is not of the shape local@domain.tld is an error, a
\* training date that is malformed or older than three years is an error,
\* the status 'No [x]' is an error and an unmarked status a warning; when no
\* block matches, the only finding about additional investigators is the
\* info 'No Additional Investigators specified'.
C23_InvestigatorBlocks == InvestigatorRules(TRUE, FALSE)

(***************************************************************************)
(* C24                                                                     *)
(***************************************************************************)
\* One of the words is in an atom of the text.
Keyworded(text, words) ==
    \E i \in 1..Len(text), word \in words : <<text[i], word>> \in TermIn

QualitativeWords == {"interview", "focus group", "observation", "action research"}

QuantitativeWords == {"survey", "clinical trial", "existing data set", "human genetics"}

\* The names of the forms appended to the seed of the list.
AppendedNames ==
    {required_forms[i].form : i \in (Len(SeedForms) + 1)..Len(required_forms)}

MixedDesign(methodology) ==
    /\ Called = "Part 3"
    /\ \E sites \in DesignSites : doc = Designed(methodology, sites)
    /\ Keyworded(methodology, {"mixed method"})

\* With 'mixed method' in the methodology the appended forms include
\* Appendix B and the recruitment materials; Appendix D and the interview
\* guides exactly when a qualitative keyword is in the text, and the surveys
\* exactly when a quantitative keyword is.
C24_MixedForms ==
    \A methodology \in DesignMethodologies :
        MixedDesign(methodology) =>
            /\ {AppendixB, RecruitmentMaterials} \subseteq AppendedNames
            /\ AppendixD \in AppendedNames <=> Keyworded(methodology, QualitativeWords)
            /\ InterviewGuides \in AppendedNames <=> Keyworded(methodology, QualitativeWords)
            /\ Surveys \in AppendedNames <=> Keyworded(methodology, QuantitativeWords)

\* A mixed-methods study whose text names no method: two forms appended
\* for it, neither the oral consent script nor the surveys.
C24_MixedOnly ==
    /\ MixedDesign(<<"mixed methods", "<260 words>">>)
    /\ AppendixB \in AppendedNames
    /\ AppendedNames \cap {AppendixD, InterviewGuides, Surveys} = {}

\* C24: when the methodology text of Part 3 contains 'mixed method', the
\* forms appended by validate_part_3 include every form of the qualitative
\* cluster (Appendix B, Appendix D, the interview guides, the recruitment
\* materials) and every form of the quantitative cluster (a consent form and
\* the surveys), whether or not the text also contains 'interview', 'focus
\* group' or 'survey'.
C24_BothClusters ==
    \A methodology \in DesignMethodologies :
        MixedDesign(methodology) =>
            /\ {AppendixB, AppendixD, InterviewGuides, RecruitmentMaterials, Surveys}
                  \subseteq AppendedNames
            /\ AppendedNames \cap {AppendixB, AppendixC} # {}

(***************************************************************************)
(* C25                                                                     *)
(***************************************************************************)
LettersOfSupport == "Letters of Support/Approval from Outside Organizations"

\* The list that the claim gives for a text of the research sites.
SiteLanguages(sites) ==
    IF Keyworded(sites, {"kazakhstan"}) THEN <<"English", "Russian", "Kazakh">>
    ELSE IF sites # <<>> /\ ~Keyworded(sites, {"nazarbayev university"})
         THEN <<"English", "Official language(s) of the country">>
         ELSE <<"English">>

\* The appended consent forms, whose reasons end with the languages.
AppendedConsentForms ==
    {i \in (Len(SeedForms) + 1)..Len(required_forms) :
        required_forms[i].form \in {AppendixB, AppendixC, AppendixD}}

\* C25: the language list of the Part 3 reason strings is ['English'] by
\* default, ['English', 'Russian', 'Kazakh'] when the lower-cased text of the
\* research sites contains 'kazakhstan', and otherwise ['English', 'Official
\* language(s) of the country'] exactly when the text is not empty and does
\* not contain 'nazarbayev university'; the form 'Letters of
\* Support/Approval from Outside Organizations' is appended exactly when
\* the text is not empty and does not contain 'nazarbayev university'.
C25_SiteLanguages ==
    Called = "Part 3" =>
        \A methodology \in DesignMethodologies, sites \in DesignSites :
            doc = Designed(methodology, sites) =>
                /\ \A i \in AppendedConsentForms :
                       required_forms[i].languages = SiteLanguages(sites)
                /\ LettersOfSupport \in AppendedNames
                      <=> (sites # <<>> /\ ~Keyworded(sites, {"nazarbayev university"}))

\* A study at the home university and at schools: its consent forms are in
\* English only and no letter of support is required.
C25_HomeAndSchools ==
    /\ Called = "Part 3"
    /\ \E methodology \in DesignMethodologies :
           doc = Designed(methodology, <<"Nazarbayev University", "schools">>)
    /\ AppendedConsentForms # {}
    /\ \A i \in AppendedConsentForms : required_forms[i].languages = <<"English">>
    /\ LettersOfSupport \notin AppendedNames

(***************************************************************************)
(* C26                                                                     *)
(***************************************************************************)
\* The paragraphs of the stream that begin with a question.
ParagraphsOf(question) == {i \in 1..Len(doc) : doc[i] # <<>> /\ doc[i][1] = question}

\* The answer on the line of a question: "absent" without the question,
\* "none" without an answer on its line.
SameLineAnswer(question) ==
    IF ParagraphsOf(question) = {} THEN "absent"
    ELSE LET p == doc[Least(ParagraphsOf(question))]
         IN  IF Len(p) >= 2 /\ p[2] \in YesNoTokens THEN p[2] ELSE "none"

\* The paragraph after the one of a question.
ParagraphAfter(question) ==
    IF ParagraphsOf(question) = {} \/ Least(ParagraphsOf(question)) = Len(doc) THEN <<>>
    ELSE doc[Least(ParagraphsOf(question)) + 1]

\* The numbers of the special populations answered 'Yes [x]'.
PopulationsSelected ==
    {i \in 1..Len(SpecialPopulations) :
        SameLineAnswer(SpecialPopulations[i].anchor) = "Yes [x]"}

NotApplicableRule ==
    /\ Found(FiledFor("Part 4").errors,
             "Justification cannot be N/A when special populations are selected", "")
          <=> PopulationsSelected # {}
    /\ Found(FiledFor("Part 4").info, "Justification marked as N/A", "")
          <=> PopulationsSelected = {}

\* The rule on the streams in which each of the ten questions has an
\* answer on its line.
C26_OwnAnswers ==
    (/\ Called = "Part 4"
     /\ ParagraphAfter(WhyGroupQ) = <<"N/A [x]">>
     /\ \A i \in 1..Len(SpecialPopulations) :
            SameLineAnswer(SpecialPopulations[i].anchor) \in YesNoTokens)
        => NotApplicableRule

\* C26: in validate_part_4, a justification of the choice of the group that
\* is marked 'N/A [x]' is an error exactly when at least one of the ten
\* questions on special populations was answered 'Yes [x]', and an info when
\* none was; populations that are unchecked or not matched are not counted
\* as selected.
C26_NotApplicable ==
    (Called = "Part 4" /\ ParagraphAfter(WhyGroupQ) = <<"N/A [x]">>) => NotApplicableRule

(***************************************************************************)
(* C27                                                                     *)
(***************************************************************************)
\* The appended entries of Appendix B that are required for the benefits
\* of the participants.
BenefitForms ==
    {i \in (Len(SeedForms) + 1)..Len(required_forms) :
        /\ required_forms[i].form = AppendixB
        /\ required_forms[i].reason = "Required to detail participant benefits."}

\* The stream has no explanation of the benefits.
Unexplained == ParagraphAfter(PleaseExplainQ) = <<SocietyQ>>

ExplanationMissing ==
    Found(FiledFor("Part 7").errors, "Participant benefits explanation is missing or empty", "")

\* With the answer 'Yes [x]', one entry is appended when the explanation is
\* there; without it the error is recorded and no entry appended.
C27_WhenExplained ==
    (Called = "Part 7" /\ OwnAnswer(BenefitQ) = "Yes [x]") =>
        /\ ~Unexplained => (Cardinality(BenefitForms) = 1 /\ ~ExplanationMissing)
        /\ Unexplained => (BenefitForms = {} /\ ExplanationMissing)

\* C27: whenever the question on the benefits of the participants in Part 7
\* is answered 'Yes [x]', validate_part_7 appends one entry 'Appendix B:
\* Written Informed Consent Form' to the list of forms, whether or not the
\* explanation of the benefits is present; a missing explanation is recorded
\* as an error in addition.
C27_BenefitsForm ==
    (Called = "Part 7" /\ OwnAnswer(BenefitQ) = "Yes [x]") =>
        /\ Cardinality(BenefitForms) = 1
        /\ Unexplained => ExplanationMissing

(***************************************************************************)
(* C28                                                                     *)
(***************************************************************************)
NamingMessages ==
    {"PI surname is missing; cannot validate file naming protocol",
     "No file names provided for naming protocol validation",
     "File does not follow naming protocol", "Application form naming is valid",
     "File naming is valid", "Ethics training certificate naming is valid",
     "Main application file not found in provided file names"}

\* The findings of the naming protocol in a list.
NamingFindings(findings) == SelectSeq(findings, LAMBDA f : f.msg \in NamingMessages)

\* The stream has no heading of Part 2, or no line of the name after the
\* heading of the Principal Investigator.
NoPIName ==
    \/ ~\E i \in 1..Len(doc) : doc[i] = <<Header(2)>>
    \/ ~\E i \in 1..(Len(doc) - 1) :
            doc[i] = <<PIRole>> /\ doc[i + 1] # <<>> /\ doc[i + 1][1] = "Name:"

\* The name of a file is {pi_surname}_IREC Application_{8 digits}, the
\* surname as it is written.
MainApplication(file_name, pi_surname) ==
    LET name    == NameWithoutExt(FileTokens(file_name))
        surname == SurnamePattern(pi_surname)
    IN  /\ Len(name) >= Len(surname)
        /\ SubSeq(name, 1, Len(surname)) = surname
        /\ ApplicationShape(SubSeq(name, Len(surname) + 1, Len(name)))

NotFoundRule ==
    Found(FiledFor("Part 11").errors, "Main application file not found in provided file names",
          "")
        <=> ~\E i \in 1..Len(file_names) : MainApplication(file_names[i], facts.pi_surname)

\* Without a name: one error of the naming protocol, no other finding of
\* it, and the findings of the reconciliation of the checklist.
SurnameMissingRule ==
    LET res == FiledFor("Part 11")
    IN  /\ facts.pi_surname = ""
        /\ NamingFindings(res.errors)
              = Err("PI surname is missing; cannot validate file naming protocol", "")
        /\ NamingFindings(res.warnings) = <<>>
        /\ NamingFindings(res.info) = <<>>
        /\ ReconciledAsRuled
        /\ Len(SelectSeq(res.errors \o res.info, LAMBDA f : f.msg \in ReconcileMessages))
              = Len(required_forms)

\* The rule on the surnames that are free of the characters that the
\* patterns of the file names read as operators.
C28_PlainSurnames ==
    (Called = "Part 11" /\ pc = "summary") =>
        /\ NoPIName => SurnameMissingRule
        /\ (facts.pi_surname \in {"Smith", "2021"} /\ file_names # <<>>) => NotFoundRule

\* C28: if validate_part_2 finds no name of the Principal Investigator, or
\* Part 2 is not found, pi_surname is empty and
\* validate_part_11_and_checklist records exactly one naming error ('PI
\* surname is missing'), no finding about a file and no 'main application
\* file not found' error, and still reconciles the checklist; with a
\* surname and a list of file names that are not empty, 'main application
\* file not found' is recorded iff no file name has the shape of the main
\* application.
C28_Naming ==
    (Called = "Part 11" /\ pc = "summary") =>
        /\ NoPIName => SurnameMissingRule
        /\ (facts.pi_surname # "" /\ file_names # <<>>) => NotFoundRule

(***************************************************************************)
(* C29                                                                     *)
(***************************************************************************)
\* The two digits of the month and the four of the year of each date, as
\* written.
Calendar ==
    ("01/2025" :> <<1, 2025>>) @@ ("12/2025" :> <<12, 2025>>) @@ ("01/2026" :> <<1, 2026>>)
    @@ ("02/2026" :> <<2, 2026>>) @@ ("01/2027" :> <<1, 2027>>) @@ ("13/2025" :> <<13, 2025>>)
    @@ ("00/2025" :> <<0, 2025>>) @@ ("01/0000" :> <<1, 0>>)

\* The dates written after the question on the dates: <<start, end>>.
DatesWritten ==
    LET at == Least(ParagraphsOf(DatesQ))
    IN  IF Len(doc[at + 1]) = 3 THEN <<doc[at + 1][1], doc[at + 1][3]>>
        ELSE <<doc[at + 1][1], doc[at + 3][1]>>

MonthInRange(a) == Calendar[a][1] \in 1..12

\* A month of the calendar and a year datetime has (MINYEAR = 1).
WellFormed(a) == MonthInRange(a) /\ Calendar[a][2] \in 1..9999

MonthsBetween(start, end) ==
    (Calendar[end][2] - Calendar[start][2]) * 12 + (Calendar[end][1] - Calendar[start][1])

SpanError == Found(FiledFor("Part 5").errors, "Data collection period exceeds one year", "")

DateFormatError ==
    Found(FiledFor("Part 5").errors, "Data collection dates must be in MM/YYYY format", "")

\* C29: in validate_part_5, for a well-formed pair of MM/YYYY dates the error
\* 'exceeds one year' is recorded iff (end.year - start.year) * 12 +
\* (end.month - start.month) > 12, so that twelve months pass and thirteen
\* fail; a pair with a month outside 01-12 gets the error on the format of
\* the dates and no error on the span.
C29_Span ==
    Called = "Part 5" =>
        LET start == DatesWritten[1]
            end == DatesWritten[2]
        IN  /\ (WellFormed(start) /\ WellFormed(end)) =>
                   /\ SpanError <=> MonthsBetween(start, end) > 12
                   /\ ~DateFormatError
            /\ (~MonthInRange(start) \/ ~MonthInRange(end)) =>
                   (DateFormatError /\ ~SpanError)

\* A span of thirteen months across two new years, found too long.
C29_ThirteenMonths ==
    /\ Called = "Part 5"
    /\ DatesWritten = <<"12/2025", "01/2027">>
    /\ SpanError
    /\ ~DateFormatError

(***************************************************************************)
(* C30                                                                     *)
(***************************************************************************)
\* The findings of the loop over required_forms, errors before infos.
RequiredFindings ==
    SelectSeq(FiledFor("Part 11").errors \o FiledFor("Part 11").info,
              LAMBDA f : f.msg \in ReconcileMessages \ {"Form is checked but not required"})

NotRequiredWarnings ==
    SelectSeq(FiledFor("Part 11").warnings, LAMBDA f : f.msg = "Form is checked but not required")

\* The distinct labels of the checklist that are marked and name no
\* required form.
MarkedNotRequired ==
    {label \in {ParsedItems[i].label : i \in 1..Len(ParsedItems)} :
        Marked(ParsedItems, label) /\ label \notin Range(RequiredNames)}

\* C30: the reconciliation of the checklist tolerates duplicates in the list
\* of required forms: it records one finding (error or info) for each entry
\* of required_forms, so that a form accumulated k times has k identical
\* findings, and at most one warning 'checked but not required' for each
\* distinct label of the checklist; the findings of the rule number
\* len(required_forms) plus the distinct marked labels that are no required
\* form.
C30_Duplicates ==
    C8_Reconciled =>
        /\ Len(RequiredFindings) = Len(required_forms)
        /\ \A name \in Range(RequiredNames) :
               LET about == {i \in 1..Len(RequiredFindings) : RequiredFindings[i].arg = name}
               IN  /\ Cardinality(about)
                         = Cardinality({i \in 1..Len(RequiredNames) : RequiredNames[i] = name})
                   /\ \A i, j \in about : RequiredFindings[i] = RequiredFindings[j]
        /\ \A i, j \in 1..Len(NotRequiredWarnings) :
               NotRequiredWarnings[i].arg = NotRequiredWarnings[j].arg => i = j
        /\ Len(RequiredFindings) + Len(NotRequiredWarnings)
               = Len(required_forms) + Cardinality(MarkedNotRequired)

\* X required twice and marked, Z marked and not required: two identical
\* infos and one warning.
C30_TwiceRequired ==
    /\ C8_Reconciled
    /\ RequiredNames = <<"X", "X">>
    /\ doc = Part11Doc(<< <<"X", "[x]">>, <<"Z", "[x]">> >>)
    /\ Len(RequiredFindings) = 2
    /\ RequiredFindings[1] = RequiredFindings[2]
    /\ Len(NotRequiredWarnings) = 1

====
